---- MODULE Spec2Model ----
(***************************************************************************)
(* A model of the performance-comparison command (src/unnamed/part_000):   *)
(* the statistics helpers average / median / formatTime, curateResults,    *)
(* runTestSuite and the orchestration in runPerformanceTests.              *)
(*                                                                         *)
(* JavaScript numbers are modelled as extended rationals <<n, d>>:         *)
(*   d > 0  : the finite number n/d in lowest terms,                       *)
(*   <<0,0>>: NaN,  <<1,0>>: Infinity,  <<-1,0>>: -Infinity.               *)
(* The inputs the model draws are small integers, whose sums, quotients by *)
(* a length and halves are far from the rounding boundaries of a double,   *)
(* so the rational results are the decimal values the doubles print as.    *)
(***************************************************************************)
EXTENDS Integers, Sequences, FiniteSets, TLC

(***************************************************************************)
(* Bounds of the model.                                                    *)
(***************************************************************************)
\* Longest array handed to a statistics helper.
MaxLen == 4
\* Sample values are the integers 1..MaxVal.
MaxVal == 4
\* Numbers given to formatTime are the eighths n/8, -MaxEighths <= n <= MaxEighths.
MaxEighths == 12
\* Longest base version string given as options.wpVersion.
MaxVersionLen == 5

(***************************************************************************)
(* JavaScript number arithmetic, as far as the helpers use it.             *)
(***************************************************************************)
NaN == <<0, 0>>
Infinity == <<1, 0>>
NegInfinity == <<-1, 0>>

Abs(i) == IF i < 0 THEN -i ELSE i

RECURSIVE GCD(_, _)
GCD(a, b) == IF b = 0 THEN a ELSE GCD(b, a % b)

\* The number n/d, d > 0, in lowest terms.
Norm(n, d) == LET g == GCD(Abs(n), d) IN <<n \div g, d \div g>>

\* An integer literal.
Num(i) == <<i, 1>>

isFinite(x) == x[2] > 0

\* x + y
Add(x, y) ==
    IF x = NaN \/ y = NaN THEN NaN
    ELSE IF x[2] = 0 /\ y[2] = 0 THEN (IF x = y THEN x ELSE NaN)
    ELSE IF x[2] = 0 THEN x
    ELSE IF y[2] = 0 THEN y
    ELSE Norm(x[1] * y[2] + y[1] * x[2], x[2] * y[2])

\* -x
Neg(x) == <<-x[1], x[2]>>

\* x - y
Sub(x, y) == Add(x, Neg(y))

\* x / k for an integer k >= 0 (an array length, or the literal 2).
DivByInt(x, k) ==
    IF x = NaN THEN NaN
    ELSE IF k = 0 THEN (IF x[1] = 0 THEN NaN
                        ELSE IF x[1] > 0 THEN Infinity ELSE NegInfinity)
    ELSE IF x[2] = 0 THEN x
    ELSE Norm(x[1], x[2] * k)

\* The sign a sort comparator's result is read as: NaN counts as 0.
Sign(x) == IF x[1] > 0 THEN 1 ELSE IF x[1] < 0 THEN -1 ELSE 0

\* x < y on non-NaN numbers.
Less(x, y) == Sign(Sub(x, y)) = -1 /\ x # NaN /\ y # NaN

(***************************************************************************)
(* average (lines 82-84)                                                   *)
(***************************************************************************)
RECURSIVE reduceSum(_, _)
\* array.reduce( ( a, b ) => a + b, acc )
reduceSum(array, acc) ==
    IF array = <<>> THEN acc
    ELSE reduceSum(Tail(array), Add(acc, Head(array)))

\* Math.floor of the mean.
averageTruncated(array) ==
    LET mean == DivByInt(reduceSum(array, Num(0)), Len(array))
    IN  IF mean[2] = 0 THEN mean ELSE Num(mean[1] \div mean[2])
average(array) == DivByInt(reduceSum(array, Num(0)), Len(array))

(***************************************************************************)
(* median (lines 93-99)                                                    *)
(***************************************************************************)
\* The comparator ( a, b ) => a - b.
compare(a, b) == Sign(Sub(a, b))

RECURSIVE insertSorted(_, _)
\* x placed into the ascending sequence s, after the elements that do not
\* compare greater than it.
insertSorted(x, s) ==
    IF s = <<>> THEN <<x>>
    ELSE IF compare(Head(s), x) > 0 THEN <<x>> \o s
    ELSE <<Head(s)>> \o insertSorted(x, Tail(s))

RECURSIVE sortFrom(_, _)
sortFrom(rest, sorted) ==
    IF rest = <<>> THEN sorted
    ELSE sortFrom(Tail(rest), insertSorted(Head(rest), sorted))

\* numbers.sort( ( a, b ) => a - b ) on a NaN-free array.
sortAscending(numbers) == sortFrom(numbers, <<>>)

\* The local `numbers`: a sorted copy of the argument.
medianNumbers(array) == sortAscending(array)

\* The local `mid` (an index counted from 0).
medianMid(array) == Len(array) \div 2

\* What the caller's array holds after the call: [ ...array ] copies it, and
\* only the copy is sorted.
medianArraySortedInPlace(array) == sortAscending(array)
medianArrayAfter(array) == array

\* The value returned. On an empty array both reads are undefined, and
\* ( undefined + undefined ) / 2 is NaN.
medianOddOnly(array) ==
    IF array = <<>> THEN NaN ELSE medianNumbers(array)[medianMid(array) + 1]
medianUnsorted(array) ==
    IF array = <<>> THEN NaN
    ELSE IF Len(array) % 2 # 0 THEN array[medianMid(array) + 1]
    ELSE DivByInt(Add(array[medianMid(array)], array[medianMid(array) + 1]), 2)
median(array) ==
    LET mid == medianMid(array)
        numbers == medianNumbers(array)
    IN  IF array = <<>> THEN NaN
        ELSE IF Len(array) % 2 # 0 THEN numbers[mid + 1]
        ELSE DivByInt(Add(numbers[mid], numbers[mid + 1]), 2)

(***************************************************************************)
(* formatTime (lines 108-111)                                              *)
(***************************************************************************)
\* Math.round( x ): the integer nearest to x, a half going up.
mathRound(x) == IF x[2] = 0 THEN x ELSE Num((2 * x[1] + x[2]) \div (2 * x[2]))

\* Math.floor in the place of Math.round.
formatTimeTruncating(number) ==
    IF number[2] = 0 THEN number
    ELSE DivByInt(Num((number[1] * 100) \div number[2]), 100)
formatTime(number) ==
    LET factor == 100
        scaled == IF number[2] = 0 THEN number
                  ELSE Norm(number[1] * factor, number[2])
    IN  DivByInt(mathRound(scaled), factor)

(***************************************************************************)
(* curateResults (lines 120-147)                                           *)
(***************************************************************************)
\* The twelve metrics of a raw result file, each an array of samples.
Metrics ==
    {"serverResponse", "firstPaint", "domContentLoaded", "loaded",
     "firstContentfulPaint", "firstBlock", "type", "focus", "inserterOpen",
     "inserterSearch", "inserterHover", "listViewOpen"}

\* The keys curateResults adds for a metric: <<metric, min key, max key>>.
MinMaxKeys ==
    {<<"type", "minType", "maxType">>,
     <<"focus", "minFocus", "maxFocus">>,
     <<"inserterOpen", "minInserterOpen", "maxInserterOpen">>,
     <<"inserterSearch", "minInserterSearch", "maxInserterSearch">>,
     <<"inserterHover", "minInserterHover", "maxInserterHover">>,
     <<"listViewOpen", "minListViewOpen", "maxListViewOpen">>}

MinKeys == {t[2] : t \in MinMaxKeys}
MaxKeys == {t[3] : t \in MinMaxKeys}

\* The keys of a curated bundle.
CuratedKeys == Metrics \cup MinKeys \cup MaxKeys

\* The metric a min or max key is computed from.
metricOf(key) == (CHOOSE t \in MinMaxKeys : t[2] = key \/ t[3] = key)[1]

RECURSIVE mathMinFrom(_, _)
mathMinFrom(values, acc) ==
    IF values = <<>> THEN acc
    ELSE IF acc = NaN \/ Head(values) = NaN THEN NaN
    ELSE mathMinFrom(Tail(values),
                     IF Less(Head(values), acc) THEN Head(values) ELSE acc)

\* Math.min( ...values ): Infinity when there is no value.
mathMin(values) == mathMinFrom(values, Infinity)

RECURSIVE mathMaxFrom(_, _)
mathMaxFrom(values, acc) ==
    IF values = <<>> THEN acc
    ELSE IF acc = NaN \/ Head(values) = NaN THEN NaN
    ELSE mathMaxFrom(Tail(values),
                     IF Less(acc, Head(values)) THEN Head(values) ELSE acc)

\* Math.max( ...values ): -Infinity when there is no value.
mathMax(values) == mathMaxFrom(values, NegInfinity)

\* curateResults reads results.<metric> for each of the twelve metrics; a
\* metric the file lacks is undefined, and average( undefined ) throws a
\* TypeError.
curateThrows(results) == \E m \in Metrics : m \notin DOMAIN results

\* What average( undefined ) throws: the message names the property read, not
\* the metric.
curateError(results) ==
    "TypeError: Cannot read properties of undefined (reading 'reduce')"

\* Every minimum taken from results.type.
curateResultsMinOfType(results) ==
    [key \in CuratedKeys |->
        IF key \in Metrics THEN average(results[key])
        ELSE IF key \in MinKeys THEN mathMin(results["type"])
        ELSE mathMax(results[metricOf(key)])]
curateResults(results) ==
    [key \in CuratedKeys |->
        IF key \in Metrics THEN average(results[key])
        ELSE IF key \in MinKeys THEN mathMin(results[metricOf(key)])
        ELSE mathMax(results[metricOf(key)])]

(***************************************************************************)
(* The WordPress archive of a base version (lines 276-295). A string is    *)
(* the sequence of its characters.                                         *)
(***************************************************************************)
Digits == {"0", "1", "2", "3", "4", "5", "6", "7", "8", "9"}

\* s[ from ], ..., s[ to ] are digits, and there is at least one.
isDigitRun(s, from, to) ==
    /\ from <= to
    /\ \A k \in from..to : s[k] \in Digits

\* The ends j of the text that /^(\d+\.\d+).0/ can take as its group, for the
\* group's first run of digits ending at i: digits, a dot, digits up to j,
\* then any character, then a 0.
groupEnds(s) ==
    {j \in 1..(Len(s) - 2) :
        /\ s[j + 2] = "0"
        /\ \E i \in 1..(j - 2) :
              /\ isDigitRun(s, 1, i)
              /\ s[i + 1] = "."
              /\ isDigitRun(s, i + 2, j)}

\* Whether the pattern of line 288 matches.
patchPatternMatches(s) == groupEnds(s) # {}

\* The end of the group: \d+ is greedy, so the longest that lets the rest of
\* the pattern match.
groupEnd(s) == CHOOSE j \in groupEnds(s) : \A k \in groupEnds(s) : k <= j

\* options.wpVersion.replace( /^(\d+\.\d+).0/, '$1' ): the match is replaced
\* by its group, and what follows the match is kept.
zipVersion(wpVersion) ==
    IF patchPatternMatches(wpVersion)
    THEN SubSeq(wpVersion, 1, groupEnd(wpVersion))
            \o SubSeq(wpVersion, groupEnd(wpVersion) + 3, Len(wpVersion))
    ELSE wpVersion

\* Line 292: the URL, as its three parts.
zipUrl(wpVersion) ==
    <<"https://wordpress.org/wordpress-">> \o zipVersion(wpVersion) \o <<".zip">>

(***************************************************************************)
(* The table displayed for a suite (lines 432-451).                        *)
(***************************************************************************)
\* Lines 434-450: metric -> ref -> "<value> ms", for the finite values.
invertedResultOfAll(res) ==
    [entry \in CuratedKeys |-> [r \in DOMAIN res |-> <<res[r][entry], "ms">>]]
invertedResult(res) ==
    [entry \in {e \in CuratedKeys : \E r \in DOMAIN res : isFinite(res[r][e])} |->
        [r \in {x \in DOMAIN res : isFinite(res[x][entry])} |->
            <<res[r][entry], "ms">>]]

(***************************************************************************)
(* State.                                                                  *)
(***************************************************************************)
VARIABLES
    \* a call of a statistics helper
    array,              \* the array object the caller passes
    permuted,           \* a second array holding the same values reordered
    ret,                \* what the call on `array` returned
    retPermuted,        \* what the call on `permuted` returned
    number,             \* the number the caller passes to formatTime
    rawBundle,          \* the raw results the caller passes to curateResults
    version,            \* the string the caller passes as options.wpVersion
    aggregated,         \* the results[ testSuite ] the report is made of
    spc,                \* where the caller is
    \* the inputs of a run of runPerformanceTests
    branches,           \* the `branches` argument (reassigned at line 186)
    env,                \* process.env: CI, GITHUB_SHA, GITHUB_BASE_REF
    resultFiles,        \* what a suite's test command may leave as its results file
    wpVersion,          \* options.wpVersion; the empty string when not given
    \* the run
    pc,                 \* the statement the run is at
    error,              \* the step whose failure was thrown, or "none"
    branchesWereSpecified,
    runningInCI,
    refs,
    calls,              \* the collaborator calls issued so far, in order
    running,            \* the environment directories started and not stopped
    branchDirectories,
    refIdx,             \* position of the current for...of loop in refs
    suiteIdx,           \* position in testSuites
    round,              \* the loop variable i of line 332
    rawResults,
    results,
    visited,            \* per suite and round, the refs the loop body ran for
    tables,             \* what console.table was given, per suite
    artifacts,          \* the results files written, per suite
    inFlight,           \* the operations issued, not awaited and not completed
    suiteRawResults,    \* the local rawResults of runTestSuite (line 162)
    wpEnvJson           \* per environment directory, what its .wp-env.json holds

VARIABLES
    \* the Draggable component (draggable/index.native.js)
    props,              \* which of the callback props were given
    isDragging,         \* shared values of lines 57-59
    isPanActive,
    draggingId,
    initialPosition,    \* refs of lines 62-69
    lastPosition,
    previous,           \* what the animated reaction saw when it last ran
    reactionPending,    \* isDragging.value was written, the reaction not run yet
    longPress,          \* per trigger, the state of its long-press handler
    pan,                \* the state of the pan gesture
    gestureEvent,       \* the gesture event handled last
    handled,            \* how many gesture events were handled
    callbacks,          \* the calls of the callback props made, in order
    jsQueue,            \* the calls handed to runOnJS and not made yet
    \* gutenberg_get_layout_position_style (wordpress-6.2/rest-api.php)
    selector,
    style,
    position_styles,
    lpc                 \* where the call of the function is

draggableVars ==
    <<props, isDragging, isPanActive, draggingId, initialPosition,
      lastPosition, previous, reactionPending, longPress, pan, gestureEvent,
      handled, callbacks, jsQueue>>
layoutVars == <<selector, style, position_styles, lpc>>
componentVars == <<draggableVars, layoutVars>>

statArgs == <<number, rawBundle, version, aggregated>>
statVars == <<array, permuted, ret, retPermuted, statArgs, spc>>
\* What the command is given, and the other components, which it never
\* touches.
inputVars == <<env, resultFiles, wpVersion, componentVars>>
runVars ==
    <<pc, error, branches, branchesWereSpecified, runningInCI, refs, calls,
      running, branchDirectories, refIdx, suiteIdx, round, rawResults,
      results, visited, tables, artifacts, inFlight, suiteRawResults,
      wpEnvJson>>
vars == <<statVars, inputVars, runVars>>

\* A value a JavaScript expression has when nothing was assigned.
undefined == "undefined"

\* An object with no keys.
EmptyObject == [k \in {} |-> undefined]

\* obj[ key ] = value
Put(obj, key, value) ==
    [k \in DOMAIN obj \cup {key} |-> IF k = key THEN value ELSE obj[k]]

\* The elements of a sequence.
Range(s) == {s[i] : i \in DOMAIN s}

(***************************************************************************)
(* Inputs.                                                                 *)
(***************************************************************************)
\* Most branches given on the command line.
MaxBranches == 2

\* Branch names a caller gives.
Revisions == {"trunk", "feature-x"}

RECURSIVE SeqsUpTo(_, _)
\* The sequences over S of length at most n.
SeqsUpTo(S, n) ==
    IF n = 0 THEN {<<>>}
    ELSE LET shorter == SeqsUpTo(S, n - 1)
         IN  shorter \cup {Append(s, x) : s \in shorter, x \in S}

BranchInputs == SeqsUpTo(Revisions, MaxBranches)

\* process.env as the command finds it: a developer's shell, a pull-request
\* job (merge commit and base branch set), and a CI job that is not for a
\* pull request (no base ref).
Envs ==
    {[CI |-> undefined, GITHUB_SHA |-> undefined, GITHUB_BASE_REF |-> undefined],
     [CI |-> "true", GITHUB_SHA |-> "sha1", GITHUB_BASE_REF |-> "trunk"],
     [CI |-> "true", GITHUB_SHA |-> "sha1", GITHUB_BASE_REF |-> undefined]}

\* lodash's kebabCase on the names the model uses.
kebabCase(ref) ==
    CASE ref = "trunk" -> "trunk"
      [] ref = "feature-x" -> "feature-x"
      [] ref = "feature/x" -> "feature-x"
      [] ref = "sha1" -> "sha-1"
      [] ref = undefined -> ""

\* Results files of a suite: every metric with the samples of one execution.
bundleOf(a, b, c) ==
    [m \in Metrics |->
        IF m = "serverResponse" THEN <<Num(a)>>
        ELSE IF m = "type" THEN <<Num(b), Num(b + 10), Num(b + 20)>>
        ELSE IF m = "focus" THEN <<Num(c), Num(c), Num(c + 1)>>
        ELSE <<Num(a), Num(c)>>]

Bundle100 == bundleOf(100, 10, 1)
Bundle110 == bundleOf(110, 11, 2)
Bundle105 == bundleOf(105, 12, 4)

\* A results file that lacks a metric.
BundleNoType == [m \in Metrics \ {"type"} |-> <<Num(100)>>]

\* What readJSONFile finds that is no results object: no file, or a file that
\* is not JSON.
Unreadable == [unreadable |-> TRUE]

\* The local rawResults of runTestSuite before readJSONFile has returned.
NoFile == [unassigned |-> TRUE]

\* options.wpVersion: not given, or 6.1.0.
BaseVersions == {<<>>, <<"6", ".", "1", ".", "0">>}

\* What .wp-env.performance.json holds: a core and other keys.
WpEnvTemplate == [core |-> <<"WordPress/WordPress">>, plugins |-> <<"./plugin">>]

testSuites == <<"post-editor", "site-editor">>

\* Rounds per suite: the bound of the loop at line 332.
roundCountTwo == 3 - 1
roundCount == 3

(***************************************************************************)
(* Calls of the statistics helpers.                                        *)
(***************************************************************************)
Samples == {Num(v) : v \in 1..MaxVal}
Arrays == SeqsUpTo(Samples, MaxLen)

\* s without its element at position i.
RemoveAt(s, i) == SubSeq(s, 1, i - 1) \o SubSeq(s, i + 1, Len(s))

RECURSIVE Reorderings(_)
\* The reorderings of a sequence.
Reorderings(s) ==
    IF s = <<>> THEN {<<>>}
    ELSE UNION {{<<s[i]>> \o p : p \in Reorderings(RemoveAt(s, i))} :
                   i \in DOMAIN s}

\* The arrays a caller passes: the arrays over the samples, and the samples of
\* a metric as a results file has them.
ExampleArray == <<Num(10), Num(20), Num(30)>>
StatArrays == Arrays \cup {ExampleArray}

\* The numbers a caller passes to formatTime: eighths, which have exact
\* halves of a hundredth among them, and two numbers of three decimals.
FormatInputs ==
    {Norm(n, 8) : n \in (-MaxEighths)..MaxEighths}
        \cup {Norm(12345, 1000), Norm(12344, 1000)}

\* The order in which curateResults lists the metrics.
MetricList ==
    <<"serverResponse", "firstPaint", "domContentLoaded", "loaded",
      "firstContentfulPaint", "firstBlock", "type", "focus", "inserterOpen",
      "inserterSearch", "inserterHover", "listViewOpen">>

metricIndex(m) == CHOOSE k \in DOMAIN MetricList : MetricList[k] = m

\* A raw results file whose metric number k has the samples of `samples`,
\* each raised by k.
bundleFrom(samples) ==
    [m \in Metrics |->
        [k \in DOMAIN samples |-> Add(samples[k], Num(metricIndex(m)))]]

\* The raw results a caller passes to curateResults: every metric with at
\* least one sample, or one metric missing.
CompleteBundles == {bundleFrom(a) : a \in StatArrays \ {<<>>}} \cup {Bundle100}
CurateInputs ==
    CompleteBundles
        \cup {[m \in Metrics \ {missing} |-> ExampleArray] : missing \in Metrics}

\* The base versions a caller gives.
VersionChars == {"0", "1", "6", "."}
VersionExamples ==
    {<<"6", ".", "1", ".", "0">>, <<"6", ".", "1", ".", "2">>, <<"5", ".", "7">>}
VersionInputs ==
    (SeqsUpTo(VersionChars, MaxVersionLen) \ {<<>>}) \cup VersionExamples

\* The metrics of a ref that had no sample, as the report may find them.
EmptyMetricSets == {{}, {"type"}, {"focus", "listViewOpen"}, Metrics}

\* The aggregated results of a ref whose metrics in `empty` had no sample:
\* their average is NaN, their minimum Infinity and their maximum -Infinity.
aggregatedFor(empty, value) ==
    [key \in CuratedKeys |->
        IF key \in Metrics
        THEN (IF key \in empty THEN NaN ELSE Norm(value, 100))
        ELSE IF metricOf(key) \notin empty THEN Norm(value, 100)
        ELSE IF key \in MinKeys THEN Infinity ELSE NegInfinity]

\* The results of a suite for one ref or two.
AggregatedInputs ==
    {[ref \in {"trunk"} |-> aggregatedFor(e, 1234)] : e \in EmptyMetricSets}
        \cup {[ref \in {"trunk", "feature-x"} |->
                  IF ref = "trunk" THEN aggregatedFor(e1, 1234)
                  ELSE aggregatedFor(e2, 1235)] :
                     e1 \in EmptyMetricSets, e2 \in EmptyMetricSets}

\* No argument of a call that takes no array.
StatArgsIdle ==
    /\ number = Num(0)
    /\ rawBundle = EmptyObject
    /\ version = <<>>
    /\ aggregated = EmptyObject

\* The ids of the DraggableTrigger children of a Draggable.
Triggers == {"a", "b"}

\* A point of the screen.
Origin == [x |-> 0, y |-> 0]

\* The callback props: all given, or none.
AllCallbacks ==
    [onDragStart |-> TRUE, onDragEnd |-> TRUE, onDragOver |-> TRUE,
     onLongPress |-> TRUE, onLongPressEnd |-> TRUE]
NoCallbacks ==
    [onDragStart |-> FALSE, onDragEnd |-> FALSE, onDragOver |-> FALSE,
     onLongPress |-> FALSE, onLongPressEnd |-> FALSE]

\* No gesture event was handled.
NoGestureEvent == [handler |-> "none", name |-> "none", id |-> ""]

\* Lines 57-69, and line 74 on the first run of the reaction: a Draggable as
\* it is once rendered, no gesture begun.
Mounted ==
    /\ isDragging = FALSE
    /\ isPanActive = FALSE
    /\ draggingId = ""
    /\ initialPosition = Origin
    /\ lastPosition = Origin
    /\ previous = <<FALSE>>
    /\ reactionPending = FALSE
    /\ longPress = [t \in Triggers |-> "idle"]
    /\ pan = "idle"
    /\ gestureEvent = NoGestureEvent
    /\ handled = 0
    /\ callbacks = <<>>
    /\ jsQueue = <<>>

\* No Draggable takes gestures.
DraggableIdle == props = NoCallbacks /\ Mounted

\* A style object without layout.
NoStyle == [position |-> "", top |-> <<>>, right |-> <<>>, bottom |-> <<>>,
            left |-> <<>>]

\* gutenberg_get_layout_position_style is not being called.
LayoutIdle ==
    /\ selector = ""
    /\ style = NoStyle
    /\ position_styles = <<>>
    /\ lpc = "idle"

ComponentsIdle == DraggableIdle /\ LayoutIdle

\* No statistics call is being made.
StatsIdle ==
    /\ array = <<>>
    /\ permuted = <<>>
    /\ StatArgsIdle
    /\ ret = undefined
    /\ retPermuted = undefined
    /\ spc = "idle"

\* No run is being made.
RunIdle ==
    /\ env = [CI |-> undefined, GITHUB_SHA |-> undefined,
              GITHUB_BASE_REF |-> undefined]
    /\ resultFiles = {}
    /\ wpVersion = <<>>
    /\ pc = "idle"
    /\ error = "none"
    /\ branches = <<>>
    /\ branchesWereSpecified = FALSE
    /\ runningInCI = FALSE
    /\ refs = <<>>
    /\ calls = <<>>
    /\ running = <<>>
    /\ branchDirectories = EmptyObject
    /\ refIdx = 1
    /\ suiteIdx = 1
    /\ round = 0
    /\ rawResults = <<>>
    /\ results = EmptyObject
    /\ visited = <<>>
    /\ tables = EmptyObject
    /\ artifacts = EmptyObject
    /\ inFlight = {}
    /\ suiteRawResults = NoFile
    /\ wpEnvJson = EmptyObject

\* A caller about to call one of the helpers on one argument.
StatsInit ==
    /\ ret = undefined
    /\ retPermuted = undefined
    /\ RunIdle
    /\ ComponentsIdle
    /\ \/ /\ spc = "ready"
          /\ array \in StatArrays
          /\ permuted \in Reorderings(array)
          /\ StatArgsIdle
       \/ /\ spc = "ready_format"
          /\ number \in FormatInputs
          /\ array = <<>> /\ permuted = <<>>
          /\ rawBundle = EmptyObject /\ version = <<>>
          /\ aggregated = EmptyObject
       \/ /\ spc = "ready_curate"
          /\ rawBundle \in CurateInputs
          /\ array = <<>> /\ permuted = <<>>
          /\ number = Num(0) /\ version = <<>>
          /\ aggregated = EmptyObject
       \/ /\ spc = "ready_version"
          /\ version \in VersionInputs
          /\ array = <<>> /\ permuted = <<>>
          /\ number = Num(0) /\ rawBundle = EmptyObject
          /\ aggregated = EmptyObject
       \/ /\ spc = "ready_report"
          /\ aggregated \in AggregatedInputs
          /\ array = <<>> /\ permuted = <<>>
          /\ number = Num(0) /\ rawBundle = EmptyObject /\ version = <<>>

\* average( array )
CallAverage ==
    /\ spc = "ready"
    /\ ret' = average(array)
    /\ spc' = "averaged"
    /\ UNCHANGED <<array, permuted, retPermuted, statArgs, inputVars, runVars>>

\* formatTime( number )
CallFormatTime ==
    /\ spc = "ready_format"
    /\ ret' = formatTime(number)
    /\ spc' = "formatted"
    /\ UNCHANGED <<array, permuted, retPermuted, statArgs, inputVars, runVars>>

\* curateResults( rawBundle ): the curated bundle, or the error thrown.
CallCurateResults ==
    /\ spc = "ready_curate"
    /\ ret' = IF curateThrows(rawBundle) THEN curateError(rawBundle)
              ELSE curateResults(rawBundle)
    /\ spc' = IF curateThrows(rawBundle) THEN "threw" ELSE "curated"
    /\ UNCHANGED <<array, permuted, retPermuted, statArgs, inputVars, runVars>>

\* The archive version and URL computed from options.wpVersion.
CallZipVersion ==
    /\ spc = "ready_version"
    /\ ret' = [zipVersion |-> zipVersion(version), zipUrl |-> zipUrl(version)]
    /\ spc' = "versioned"
    /\ UNCHANGED <<array, permuted, retPermuted, statArgs, inputVars, runVars>>

\* median( array )
CallMedian ==
    /\ spc = "ready"
    /\ ret' = median(array)
    /\ array' = medianArrayAfter(array)
    /\ spc' = "returned"
    /\ UNCHANGED <<permuted, retPermuted, statArgs, inputVars, runVars>>

\* median( permuted )
CallMedianPermuted ==
    /\ spc = "returned"
    /\ retPermuted' = median(permuted)
    /\ permuted' = medianArrayAfter(permuted)
    /\ spc' = "compared"
    /\ UNCHANGED <<array, ret, statArgs, inputVars, runVars>>

\* The table of lines 432-451 made of results[ testSuite ].
CallInvertedResult ==
    /\ spc = "ready_report"
    /\ ret' = invertedResult(aggregated)
    /\ spc' = "reported"
    /\ UNCHANGED <<array, permuted, retPermuted, statArgs, inputVars, runVars>>

StatsNext ==
    \/ CallInvertedResult
    \/ CallMedian
    \/ CallMedianPermuted
    \/ CallAverage
    \/ CallFormatTime
    \/ CallCurateResults
    \/ CallZipVersion

SpecStats == StatsInit /\ [][StatsNext]_vars

(***************************************************************************)
(* runPerformanceTests (lines 177-459), one action per awaited step.       *)
(***************************************************************************)
\* The run before its first statement.
RunStart ==
    /\ StatsIdle
    /\ ComponentsIdle
    /\ pc = "begin"
    /\ error = "none"
    /\ branchesWereSpecified = FALSE
    /\ runningInCI = FALSE
    /\ refs = <<>>
    /\ calls = <<>>
    /\ running = <<>>
    /\ branchDirectories = EmptyObject
    /\ refIdx = 1
    /\ suiteIdx = 1
    /\ round = 0
    /\ rawResults = <<>>
    /\ results = EmptyObject
    /\ visited = [s \in DOMAIN testSuites |-> [k \in 1..roundCount |-> <<>>]]
    /\ tables = EmptyObject
    /\ artifacts = EmptyObject
    /\ inFlight = {}
    /\ suiteRawResults = NoFile
    /\ wpEnvJson = EmptyObject

\* Any branches, any environment, a base version or none; a suite leaves one
\* of two results files, a results file that lacks a metric, or none that can
\* be read.
RunInit ==
    /\ branches \in BranchInputs
    /\ env \in Envs
    /\ wpVersion \in BaseVersions
    /\ resultFiles = {Bundle100, Bundle110, BundleNoType, Unreadable}
    /\ RunStart

\* An awaited collaborator call: it is issued, and either completes, and the
\* run goes on at `next`, or fails, and the rejection is thrown out of
\* runPerformanceTests.
AwaitRetrying(op, target, ok, next) ==
    /\ calls' = Append(calls, <<op, target>>)
    /\ pc' = IF ok THEN next ELSE pc
    /\ error' = IF ok THEN error ELSE op
AwaitCatching(op, target, ok, next) ==
    /\ calls' = Append(calls, <<op, target>>)
    /\ pc' = next
    /\ error' = IF ok THEN error ELSE op
Await(op, target, ok, next) ==
    /\ calls' = Append(calls, <<op, target>>)
    /\ pc' = IF ok THEN next ELSE "failed"
    /\ error' = IF ok THEN error ELSE op

\* Lines 178-194: the flags, and the default of `branches`.
BeginPromptingAlways ==
    /\ pc = "begin"
    /\ branchesWereSpecified' = (Len(branches) > 0)
    /\ runningInCI' = (env.CI # undefined)
    /\ branches' = IF Len(branches) = 0 THEN <<"trunk">> ELSE branches
    /\ pc' = "confirm"
    /\ UNCHANGED <<statVars, inputVars, error, refs, calls, running,
                   branchDirectories, refIdx, suiteIdx, round, rawResults,
                   results, visited, tables, artifacts, inFlight,
                   suiteRawResults, wpEnvJson>>
Begin ==
    /\ pc = "begin"
    /\ branchesWereSpecified' = (Len(branches) > 0)
    /\ runningInCI' = (env.CI # undefined)
    /\ branches' = IF Len(branches) = 0 THEN <<"trunk">> ELSE branches
    /\ pc' = IF runningInCI' THEN "resolve" ELSE "confirm"
    /\ UNCHANGED <<statVars, inputVars, error, refs, calls, running,
                   branchDirectories, refIdx, suiteIdx, round, rawResults,
                   results, visited, tables, artifacts, inFlight,
                   suiteRawResults, wpEnvJson>>

\* Lines 196-198: await askForConfirmation( 'Ready to go? ' ).
Confirm ==
    /\ pc = "confirm"
    /\ \E ok \in BOOLEAN : Await("askForConfirmation", "", ok, "resolve")
    /\ UNCHANGED <<statVars, inputVars, branches, branchesWereSpecified,
                   runningInCI, refs, running, branchDirectories, refIdx,
                   suiteIdx, round, rawResults, results, visited, tables,
                   artifacts, inFlight, suiteRawResults, wpEnvJson>>

inferTestBranches == runningInCI /\ ~branchesWereSpecified

\* Line 204.
resolvedRefs ==
    IF inferTestBranches THEN <<env.GITHUB_SHA, env.GITHUB_BASE_REF>>
    ELSE branches

\* The guard of line 206.
tooFewRefs(r) == Len(r) <= 0

\* Lines 204-210.
Resolve ==
    /\ pc = "resolve"
    /\ refs' = resolvedRefs
    /\ pc' = IF tooFewRefs(resolvedRefs) THEN "failed" ELSE "mkdir_base"
    /\ error' = IF tooFewRefs(resolvedRefs) THEN "Need at least two git refs"
                ELSE error
    /\ UNCHANGED <<statVars, inputVars, branches, branchesWereSpecified,
                   runningInCI, calls, running, branchDirectories, refIdx,
                   suiteIdx, round, rawResults, results, visited, tables,
                   artifacts, inFlight, suiteRawResults, wpEnvJson>>

\* What the provisioning steps leave alone.
provisionFrame ==
    <<statVars, inputVars, branches, branchesWereSpecified, runningInCI, refs,
      running, suiteIdx, round, rawResults, results, visited, tables,
      artifacts, suiteRawResults>>

\* Lines 212-214: fs.mkdirSync( baseDirectory ), then runShellScript( cd ),
\* which is issued and not awaited.
MkdirBase ==
    /\ pc = "mkdir_base"
    /\ \E ok \in BOOLEAN :
          /\ calls' = IF ok THEN calls \o <<<<"mkdirSync", "base">>, <<"cd", "base">>>>
                      ELSE Append(calls, <<"mkdirSync", "base">>)
          /\ inFlight' = IF ok THEN inFlight \cup {<<"cd", "base">>} ELSE inFlight
          /\ pc' = IF ok THEN "git_init" ELSE "failed"
          /\ error' = IF ok THEN error ELSE "mkdirSync"
    /\ UNCHANGED <<provisionFrame, branchDirectories, refIdx, wpEnvJson>>

\* Lines 216-219: git init, git remote add origin.
GitInit ==
    /\ pc = "git_init"
    /\ \E ok \in BOOLEAN : Await("git init", "base", ok, "fetch")
    /\ UNCHANGED <<provisionFrame, branchDirectories, refIdx, inFlight, wpEnvJson>>

\* Lines 221-223: git fetch --depth=1 origin <ref>, for each ref.
Fetch ==
    /\ pc = "fetch"
    /\ \E ok \in BOOLEAN :
          Await("git fetch", refs[refIdx], ok,
                IF refIdx < Len(refs) THEN "fetch" ELSE "checkout")
    /\ refIdx' = IF pc' = "fetch" THEN refIdx + 1
                 ELSE IF pc' = "checkout" THEN 1 ELSE refIdx
    /\ UNCHANGED <<provisionFrame, branchDirectories, inFlight, wpEnvJson>>

\* Line 225: git checkout refs[ 0 ].
Checkout ==
    /\ pc = "checkout"
    /\ \E ok \in BOOLEAN : Await("git checkout", refs[1], ok, "mkdir_root")
    /\ UNCHANGED <<provisionFrame, branchDirectories, refIdx, inFlight, wpEnvJson>>

\* Line 229: mkdir -p rootDirectory.
MkdirRoot ==
    /\ pc = "mkdir_root"
    /\ \E ok \in BOOLEAN : Await("mkdir -p", "root", ok, "copy_tests")
    /\ UNCHANGED <<provisionFrame, branchDirectories, refIdx, inFlight, wpEnvJson>>

\* Lines 230-232: cp -R baseDirectory performanceTestDirectory.
CopyTests ==
    /\ pc = "copy_tests"
    /\ \E ok \in BOOLEAN : Await("cp -R base", "root/tests", ok, "build_tests")
    /\ UNCHANGED <<provisionFrame, branchDirectories, refIdx, inFlight, wpEnvJson>>

\* Lines 234-237: npm ci && npm run build:packages.
BuildTests ==
    /\ pc = "build_tests"
    /\ \E ok \in BOOLEAN :
          Await("npm ci && npm run build:packages", "root/tests", ok, "mkdir_envs")
    /\ UNCHANGED <<provisionFrame, branchDirectories, refIdx, inFlight, wpEnvJson>>

\* Line 239: mkdir -p rootDirectory/envs.
MkdirEnvs ==
    /\ pc = "mkdir_envs"
    /\ \E ok \in BOOLEAN : Await("mkdir -p", "root/envs", ok, "env_mkdir")
    /\ UNCHANGED <<provisionFrame, branchDirectories, refIdx, inFlight, wpEnvJson>>

\* Lines 249-250: rootDirectory + '/envs/' + kebabCase( ref ), named here by
\* its last part.
environmentDirectory(ref) == kebabCase(ref)

\* The directories under rootDirectory/envs that exist.
envDirectories == {branchDirectories[r] : r \in DOMAIN branchDirectories}

\* Whether mkdir (without -p) can make rootDirectory/envs/<dir>: not when it
\* exists, and the empty name is rootDirectory/envs/ itself.
mkdirWithParents(dir) == TRUE
mkdirCanSucceed(dir) == dir \notin envDirectories \cup {""}

\* Lines 248-253: branchDirectories[ ref ] is set, then mkdir runs.
EnvMkdir ==
    /\ pc = "env_mkdir"
    /\ LET ref == refs[refIdx]
           dir == environmentDirectory(ref)
       IN  /\ branchDirectories' = Put(branchDirectories, ref, dir)
           /\ \E ok \in {b \in BOOLEAN : b => mkdirCanSucceed(dir)} :
                 Await("mkdir", dir, ok, "env_copy")
    /\ UNCHANGED <<provisionFrame, refIdx, inFlight, wpEnvJson>>

\* Lines 254-256: cp -R baseDirectory environmentDirectory/plugin.
EnvCopySkippingCheckout ==
    /\ pc = "env_copy"
    /\ \E ok \in BOOLEAN :
          Await("cp -R base", branchDirectories[refs[refIdx]], ok, "env_build")
    /\ UNCHANGED <<provisionFrame, branchDirectories, refIdx, inFlight, wpEnvJson>>
EnvCopy ==
    /\ pc = "env_copy"
    /\ \E ok \in BOOLEAN :
          Await("cp -R base", branchDirectories[refs[refIdx]], ok, "env_checkout")
    /\ UNCHANGED <<provisionFrame, branchDirectories, refIdx, inFlight, wpEnvJson>>

\* Lines 259-260: git reset --hard, git checkout <ref> in the plugin copy.
EnvCheckout ==
    /\ pc = "env_checkout"
    /\ \E ok \in BOOLEAN :
          Await("git reset && git checkout", refs[refIdx], ok, "env_build")
    /\ UNCHANGED <<provisionFrame, branchDirectories, refIdx, inFlight, wpEnvJson>>

\* Line 263: npm ci && npm run build in the environment directory.
EnvBuild ==
    /\ pc = "env_build"
    /\ \E ok \in BOOLEAN :
          Await("npm ci && npm run build", branchDirectories[refs[refIdx]], ok,
                "env_config")
    /\ UNCHANGED <<provisionFrame, branchDirectories, refIdx, inFlight, wpEnvJson>>

\* Where the loop of line 247 goes after a ref: the next ref, or the tests.
afterRefStartingTests == "suite_begin"
afterRef == IF refIdx < Len(refs) THEN "env_mkdir" ELSE "suite_begin"

\* Lines 265-276: cp of .wp-env.performance.json to the environment's
\* .wp-env.json; then the patch when a base version was given.
EnvConfig ==
    /\ pc = "env_config"
    /\ LET dir == branchDirectories[refs[refIdx]]
       IN  \E ok \in BOOLEAN :
              /\ Await("cp .wp-env.performance.json", dir, ok,
                       IF wpVersion # <<>> THEN "env_patch" ELSE afterRef)
              /\ wpEnvJson' = IF ok THEN Put(wpEnvJson, dir, WpEnvTemplate)
                              ELSE wpEnvJson
    /\ refIdx' = IF pc' = "env_mkdir" THEN refIdx + 1
                 ELSE IF pc' = "suite_begin" THEN 1 ELSE refIdx
    /\ UNCHANGED <<provisionFrame, branchDirectories, inFlight>>

\* readJSONFile of lib/utils, called on the environment's .wp-env.json: the
\* parsed content of the file, returned to the caller as it is called.
readJSONFile(dir) == wpEnvJson[dir]

\* Line 298: { ...readJSONFile( confPath ), core: zipUrl }.
patchedConfOfCoreOnly(read, url) == [k \in {"core"} |-> url]
patchedConf(read, url) ==
    [k \in DOMAIN read \cup {"core"} |-> IF k = "core" THEN url ELSE read[k]]

\* Lines 276-304: .wp-env.json is read, its core replaced by the archive URL,
\* and the file written back; either of the two can throw.
EnvPatch ==
    /\ pc = "env_patch"
    /\ LET dir == branchDirectories[refs[refIdx]]
           conf == patchedConf(readJSONFile(dir), zipUrl(wpVersion))
       IN  \/ /\ Await("readJSONFile .wp-env.json", dir, FALSE, afterRef)
              /\ UNCHANGED wpEnvJson
           \/ \E ok \in BOOLEAN :
                 /\ calls' = calls \o <<<<"readJSONFile .wp-env.json", dir>>,
                                        <<"writeFileSync .wp-env.json", dir>>>>
                 /\ pc' = IF ok THEN afterRef ELSE "failed"
                 /\ error' = IF ok THEN error ELSE "writeFileSync .wp-env.json"
                 /\ wpEnvJson' = IF ok THEN Put(wpEnvJson, dir, conf) ELSE wpEnvJson
    /\ refIdx' = IF pc' = "env_mkdir" THEN refIdx + 1
                 ELSE IF pc' = "suite_begin" THEN 1 ELSE refIdx
    /\ UNCHANGED <<provisionFrame, branchDirectories, inFlight>>

\* The child process of the `cd` of line 214 exits: any time after it was
\* issued, since nothing waits for it.
CdCompletes ==
    /\ <<"cd", "base">> \in inFlight
    /\ inFlight' = inFlight \ {<<"cd", "base">>}
    /\ UNCHANGED <<statVars, inputVars, pc, error, branches,
                   branchesWereSpecified, runningInCI, refs, calls, running,
                   branchDirectories, refIdx, suiteIdx, round, rawResults,
                   results, visited, tables, artifacts, suiteRawResults,
                   wpEnvJson>>

\* What the steps of the tests leave alone.
trialFrame ==
    <<statVars, inputVars, branches, branchesWereSpecified, runningInCI, refs,
      branchDirectories, tables, artifacts, inFlight, wpEnvJson>>

\* Lines 327-330: a suite begins with no results of its own.
BeginSuite ==
    /\ pc = "suite_begin"
    /\ results' = Put(results, testSuites[suiteIdx], EmptyObject)
    /\ rawResults' = <<>>
    /\ round' = 0
    /\ pc' = "round_begin"
    /\ UNCHANGED <<trialFrame, error, calls, running, refIdx, suiteIdx, visited,
                   suiteRawResults>>

\* Lines 332-334: the test i < 3, and rawResults[ i ] = {}.
BeginRoundAtLastRef ==
    /\ pc = "round_begin"
    /\ IF round < roundCount
       THEN /\ rawResults' = Append(rawResults, EmptyObject)
            /\ refIdx' = Len(refs)
            /\ pc' = "env_start"
       ELSE /\ pc' = "medians"
            /\ UNCHANGED <<rawResults, refIdx>>
    /\ UNCHANGED <<trialFrame, error, calls, running, suiteIdx, round, results,
                   visited, suiteRawResults>>
BeginRound ==
    /\ pc = "round_begin"
    /\ IF round < roundCount
       THEN /\ rawResults' = Append(rawResults, EmptyObject)
            /\ refIdx' = 1
            /\ pc' = "env_start"
       ELSE /\ pc' = "medians"
            /\ UNCHANGED <<rawResults, refIdx>>
    /\ UNCHANGED <<trialFrame, error, calls, running, suiteIdx, round, results,
                   visited, suiteRawResults>>

\* Line 334: the order in which round i visits the refs.
roundOrderAlternating(r, i) ==
    IF i % 2 = 1 THEN [k \in DOMAIN r |-> r[Len(r) + 1 - k]] ELSE r
roundOrder(r, i) == r

\* The ref of the loop body being run.
currentRef == roundOrder(refs, round)[refIdx]

\* s without the first element equal to x.
RemoveFirst(s, x) ==
    IF x \notin Range(s) THEN s
    ELSE RemoveAt(s, CHOOSE k \in DOMAIN s :
                        s[k] = x /\ \A j \in 1..(k - 1) : s[j] # x)

\* Lines 336-342: wp-env start in the ref's environment directory.
StartEnv ==
    /\ pc = "env_start"
    /\ visited' = [visited EXCEPT ![suiteIdx][round + 1] = Append(@, currentRef)]
    /\ \E ok \in BOOLEAN :
          /\ Await("wp-env start", branchDirectories[currentRef], ok, "run_test")
          /\ running' = IF ok THEN Append(running, branchDirectories[currentRef])
                        ELSE running
    /\ UNCHANGED <<trialFrame, refIdx, suiteIdx, round, rawResults, results,
                   suiteRawResults>>

\* Lines 158-161 (runTestSuite): npm run test:performance for the suite.
RunTestSkippingFailed ==
    /\ pc = "run_test"
    /\ \E ok \in BOOLEAN :
          /\ calls' = Append(calls, <<"npm run test:performance", testSuites[suiteIdx]>>)
          /\ pc' = IF ok THEN "read_results" ELSE "env_stop"
          /\ error' = IF ok THEN error ELSE "npm run test:performance"
    /\ UNCHANGED <<trialFrame, running, refIdx, suiteIdx, round, rawResults,
                   results, visited, suiteRawResults>>
RunTest ==
    /\ pc = "run_test"
    /\ \E ok \in BOOLEAN :
          Await("npm run test:performance", testSuites[suiteIdx], ok, "read_results")
    /\ UNCHANGED <<trialFrame, running, refIdx, suiteIdx, round, rawResults,
                   results, visited, suiteRawResults>>

\* Lines 162-168 (runTestSuite) and the assignment of line 344: the results
\* file is read and curated, and the curated bundle stored under the ref.
ReadResultsClearingRound ==
    /\ pc = "read_results"
    /\ calls' = Append(calls, <<"readJSONFile", testSuites[suiteIdx]>>)
    /\ \E file \in resultFiles :
          IF file = Unreadable
          THEN /\ pc' = "failed"
               /\ error' = "readJSONFile"
               /\ UNCHANGED <<suiteRawResults, rawResults>>
          ELSE /\ suiteRawResults' = file
               /\ IF curateThrows(file)
                  THEN /\ pc' = "failed"
                       /\ error' = curateError(file)
                       /\ UNCHANGED rawResults
                  ELSE /\ pc' = "env_stop"
                       /\ rawResults' =
                             [rawResults EXCEPT
                                ![round + 1] =
                                    Put(EmptyObject, currentRef, curateResults(file))]
                       /\ UNCHANGED error
    /\ UNCHANGED <<trialFrame, running, refIdx, suiteIdx, round, results, visited>>
ReadResultsUnderFirstRef ==
    /\ pc = "read_results"
    /\ calls' = Append(calls, <<"readJSONFile", testSuites[suiteIdx]>>)
    /\ \E file \in resultFiles :
          IF file = Unreadable
          THEN /\ pc' = "failed"
               /\ error' = "readJSONFile"
               /\ UNCHANGED <<suiteRawResults, rawResults>>
          ELSE /\ suiteRawResults' = file
               /\ IF curateThrows(file)
                  THEN /\ pc' = "failed"
                       /\ error' = curateError(file)
                       /\ UNCHANGED rawResults
                  ELSE /\ pc' = "env_stop"
                       /\ rawResults' =
                             [rawResults EXCEPT
                                ![round + 1] =
                                    Put(@, refs[1], curateResults(file))]
                       /\ UNCHANGED error
    /\ UNCHANGED <<trialFrame, running, refIdx, suiteIdx, round, results, visited>>
ReadResults ==
    /\ pc = "read_results"
    /\ calls' = Append(calls, <<"readJSONFile", testSuites[suiteIdx]>>)
    /\ \E file \in resultFiles :
          IF file = Unreadable
          THEN /\ pc' = "failed"
               /\ error' = "readJSONFile"
               /\ UNCHANGED <<suiteRawResults, rawResults>>
          ELSE /\ suiteRawResults' = file
               /\ IF curateThrows(file)
                  THEN /\ pc' = "failed"
                       /\ error' = curateError(file)
                       /\ UNCHANGED rawResults
                  ELSE /\ pc' = "env_stop"
                       /\ rawResults' =
                             [rawResults EXCEPT
                                ![round + 1] =
                                    Put(@, currentRef, curateResults(file))]
                       /\ UNCHANGED error
    /\ UNCHANGED <<trialFrame, running, refIdx, suiteIdx, round, results, visited>>

\* Lines 348-353: wp-env stop; then the next ref, or the next round.
StopEnvSkipped ==
    /\ pc = "env_stop"
    /\ pc' = IF refIdx < Len(refs) THEN "env_start" ELSE "round_begin"
    /\ refIdx' = IF refIdx < Len(refs) THEN refIdx + 1 ELSE refIdx
    /\ round' = IF refIdx < Len(refs) THEN round ELSE round + 1
    /\ suiteRawResults' = NoFile
    /\ UNCHANGED <<trialFrame, error, calls, running, suiteIdx, rawResults,
                   results, visited>>
StopEnv ==
    /\ pc = "env_stop"
    /\ \E ok \in BOOLEAN :
          /\ Await("wp-env stop", branchDirectories[currentRef], ok,
                   IF refIdx < Len(refs) THEN "env_start" ELSE "round_begin")
          /\ running' = IF ok THEN RemoveFirst(running, branchDirectories[currentRef])
                        ELSE running
    /\ refIdx' = IF pc' = "env_start" THEN refIdx + 1 ELSE refIdx
    /\ round' = IF pc' = "round_begin" THEN round + 1 ELSE round
    /\ suiteRawResults' = NoFile
    /\ UNCHANGED <<trialFrame, suiteIdx, rawResults, results, visited>>

\* rawResults.map( ( r ) => r[ ref ][ key ] )
columnOfFirstRef(raw, ref, key) ==
    [k \in DOMAIN raw |-> raw[k][refs[1]][key]]
column(raw, ref, key) == [k \in DOMAIN raw |-> raw[k][ref][key]]

\* Lines 358-419: per key the median over the rounds, formatted.
mediansOf(raw, ref) ==
    [key \in CuratedKeys |-> formatTime(median(column(raw, ref, key)))]

\* The refs the loop of line 357 stores results for.
aggregatedRefsButFirst(r) == Range(Tail(r))
aggregatedRefs(r) == Range(r)

\* Lines 357-420: results[ testSuite ][ ref ] for each ref; then the next
\* suite, or the report.
ComputeMediansOfLastSuite ==
    /\ pc = "medians"
    /\ results' = IF suiteIdx < Len(testSuites) THEN results
                  ELSE [results EXCEPT ![testSuites[suiteIdx]] =
                          [ref \in aggregatedRefs(refs) |-> mediansOf(rawResults, ref)]]
    /\ pc' = IF suiteIdx < Len(testSuites) THEN "suite_begin" ELSE "report"
    /\ suiteIdx' = IF suiteIdx < Len(testSuites) THEN suiteIdx + 1 ELSE 1
    /\ UNCHANGED <<trialFrame, error, calls, running, refIdx, round, rawResults,
                   visited, suiteRawResults>>
ComputeMedians ==
    /\ pc = "medians"
    /\ results' = [results EXCEPT ![testSuites[suiteIdx]] =
                      [ref \in aggregatedRefs(refs) |-> mediansOf(rawResults, ref)]]
    /\ pc' = IF suiteIdx < Len(testSuites) THEN "suite_begin" ELSE "report"
    /\ suiteIdx' = IF suiteIdx < Len(testSuites) THEN suiteIdx + 1 ELSE 1
    /\ UNCHANGED <<trialFrame, error, calls, running, refIdx, round, rawResults,
                   visited, suiteRawResults>>

\* Lines 430-458: console.table of the inverted results, and the suite's
\* results file written with fs.writeFileSync, which may throw.
ReportCatching ==
    /\ pc = "report"
    /\ LET testSuite == testSuites[suiteIdx]
       IN  /\ tables' = Put(tables, testSuite, invertedResult(results[testSuite]))
           /\ \E ok \in BOOLEAN :
                 /\ calls' = Append(calls, <<"writeFileSync", testSuite>>)
                 /\ pc' = IF suiteIdx < Len(testSuites) THEN "report" ELSE "done"
                 /\ error' = error
                 /\ artifacts' = IF ok THEN Put(artifacts, testSuite, results[testSuite])
                                 ELSE artifacts
    /\ suiteIdx' = IF pc' = "report" THEN suiteIdx + 1 ELSE suiteIdx
    /\ UNCHANGED <<statVars, inputVars, branches, branchesWereSpecified,
                   runningInCI, refs, branchDirectories, running, refIdx, round,
                   rawResults, results, visited, inFlight, suiteRawResults,
                   wpEnvJson>>
ReportOfFirstSuite ==
    /\ pc = "report"
    /\ LET testSuite == testSuites[suiteIdx]
       IN  /\ tables' = Put(tables, testSuite, invertedResult(results[testSuite]))
           /\ \E ok \in BOOLEAN :
                 /\ Await("writeFileSync", testSuite, ok, "done")
                 /\ artifacts' = IF ok THEN Put(artifacts, testSuite, results[testSuite])
                                 ELSE artifacts
    /\ suiteIdx' = suiteIdx
    /\ UNCHANGED <<statVars, inputVars, branches, branchesWereSpecified,
                   runningInCI, refs, branchDirectories, running, refIdx, round,
                   rawResults, results, visited, inFlight, suiteRawResults,
                   wpEnvJson>>
Report ==
    /\ pc = "report"
    /\ LET testSuite == testSuites[suiteIdx]
       IN  /\ tables' = Put(tables, testSuite, invertedResult(results[testSuite]))
           /\ \E ok \in BOOLEAN :
                 /\ Await("writeFileSync", testSuite, ok,
                          IF suiteIdx < Len(testSuites) THEN "report" ELSE "done")
                 /\ artifacts' = IF ok THEN Put(artifacts, testSuite, results[testSuite])
                                 ELSE artifacts
    /\ suiteIdx' = IF pc' = "report" THEN suiteIdx + 1 ELSE suiteIdx
    /\ UNCHANGED <<statVars, inputVars, branches, branchesWereSpecified,
                   runningInCI, refs, branchDirectories, running, refIdx, round,
                   rawResults, results, visited, inFlight, suiteRawResults,
                   wpEnvJson>>

Next ==
    \/ Begin \/ Confirm \/ Resolve
    \/ MkdirBase \/ GitInit \/ Fetch \/ Checkout
    \/ MkdirRoot \/ CopyTests \/ BuildTests \/ MkdirEnvs
    \/ EnvMkdir \/ EnvCopy \/ EnvCheckout \/ EnvBuild \/ EnvConfig \/ EnvPatch
    \/ CdCompletes
    \/ BeginSuite \/ BeginRound
    \/ StartEnv \/ RunTest \/ ReadResults \/ StopEnv
    \/ ComputeMedians \/ Report

Spec == RunInit /\ [][Next]_vars

\* The scenario of two named revisions on a developer's machine, on the base
\* version 6.1.0, with three different results files for the suites to leave.
TrialFiles == {Bundle100, Bundle110, Bundle105}

TrialsInit ==
    /\ branches = <<"trunk", "feature-x">>
    /\ env = [CI |-> undefined, GITHUB_SHA |-> undefined,
              GITHUB_BASE_REF |-> undefined]
    /\ resultFiles = TrialFiles
    /\ wpVersion = <<"6", ".", "1", ".", "0">>
    /\ RunStart

SpecTrials == TrialsInit /\ [][Next]_vars

\* Two branches of a repository whose names differ in a separator only.
SeparatorRevisions == {"feature-x", "feature/x"}

\* A developer compares branches with such names; a suite leaves one results
\* file.
DirectoriesInit ==
    /\ branches \in SeqsUpTo(SeparatorRevisions, MaxBranches) \ {<<>>}
    /\ env = [CI |-> undefined, GITHUB_SHA |-> undefined,
              GITHUB_BASE_REF |-> undefined]
    /\ resultFiles = {Bundle100}
    /\ wpVersion \in BaseVersions
    /\ RunStart

SpecDirectories == DirectoriesInit /\ [][Next]_vars

(***************************************************************************)
(* Draggable and DraggableTrigger (draggable/index.native.js), one action  *)
(* per gesture event handler, one for the animated reaction, which runs    *)
(* when the handler has returned, and one for the JS thread making a call  *)
(* handed to runOnJS.                                                      *)
(***************************************************************************)
\* Most gesture events a Draggable is followed through.
MaxGestureEvents == 5

\* The coordinates a gesture event has here.
Coordinates == {0, 1}
Points == [x : Coordinates, y : Coordinates]

\* What does not change while a Draggable handles gestures.
draggableFrame == <<statVars, env, resultFiles, wpVersion, layoutVars, runVars, props>>

\* A call of a callback prop.
Called(name, id, at) == [callback |-> name, id |-> id, at |-> at]

\* A gesture event reaches its handler when the reaction to the event before
\* it has run; it is counted and remembered.
Handle(handler, name, id) ==
    /\ ~reactionPending
    /\ handled < MaxGestureEvents
    /\ handled' = handled + 1
    /\ gestureEvent' = [handler |-> handler, name |-> name, id |-> id]

\* Lines 71-95: the reaction to isDragging.value, which the library runs on
\* the UI thread when the handler that wrote the value has returned.
AnimatedReactionOnEveryRun ==
    /\ reactionPending
    /\ reactionPending' = FALSE
    /\ previous' = <<isDragging>>
    /\ callbacks' =
          IF isDragging
          THEN IF props.onDragStart
               THEN Append(callbacks, Called("onDragStart", draggingId, initialPosition))
               ELSE callbacks
          ELSE IF props.onDragEnd
               THEN Append(callbacks, Called("onDragEnd", draggingId, lastPosition))
               ELSE callbacks
    /\ UNCHANGED <<draggableFrame, isDragging, isPanActive, draggingId,
                   initialPosition, lastPosition, longPress, pan, gestureEvent,
                   handled, jsQueue>>
AnimatedReaction ==
    /\ reactionPending
    /\ reactionPending' = FALSE
    /\ previous' = <<isDragging>>
    /\ callbacks' =
          IF <<isDragging>> = previous \/ previous = <<>>
          THEN callbacks
          ELSE IF isDragging
               THEN IF props.onDragStart
                    THEN Append(callbacks, Called("onDragStart", draggingId, initialPosition))
                    ELSE callbacks
               ELSE IF props.onDragEnd
                    THEN Append(callbacks, Called("onDragEnd", draggingId, lastPosition))
                    ELSE callbacks
    /\ UNCHANGED <<draggableFrame, isDragging, isPanActive, draggingId,
                   initialPosition, lastPosition, longPress, pan, gestureEvent,
                   handled, jsQueue>>

\* Lines 208 and 217: runOnJS( callback )( id ) when the prop is given: the
\* call is queued for the JS thread, and the handler goes on.
runOnJS(given, name, id) ==
    IF given THEN Append(jsQueue, Called(name, id, Origin)) ELSE jsQueue

\* The JS thread, which runs beside the UI thread, makes the call that was
\* queued first: at any time after the handler that queued it has returned,
\* before the reaction or after it.
JSThreadCalls ==
    /\ jsQueue # <<>>
    /\ callbacks' = Append(callbacks, Head(jsQueue))
    /\ jsQueue' = Tail(jsQueue)
    /\ UNCHANGED <<draggableFrame, isDragging, isPanActive, draggingId,
                   initialPosition, lastPosition, previous, reactionPending,
                   longPress, pan, gestureEvent, handled>>

\* Lines 200-210: onActive of the long-press handler of trigger id, for the
\* event that activates it and for every event while it is active.
LongPressActiveUnguarded(id) ==
    /\ Handle("longPress", "onActive", id)
    /\ longPress' = [longPress EXCEPT ![id] = "active"]
    /\ draggingId' = id
    /\ isDragging' = TRUE
    /\ reactionPending' = TRUE
    /\ jsQueue' = runOnJS(props.onLongPress, "onLongPress", id)
    /\ UNCHANGED <<draggableFrame, isPanActive, initialPosition, lastPosition, pan,
                   previous, callbacks>>
LongPressActive(id) ==
    /\ Handle("longPress", "onActive", id)
    /\ longPress' = [longPress EXCEPT ![id] = "active"]
    /\ IF isDragging
       THEN UNCHANGED <<draggingId, isDragging, jsQueue, reactionPending>>
       ELSE /\ draggingId' = id
            /\ isDragging' = TRUE
            /\ reactionPending' = TRUE
            /\ jsQueue' = runOnJS(props.onLongPress, "onLongPress", id)
    /\ UNCHANGED <<draggableFrame, isPanActive, initialPosition, lastPosition, pan,
                   previous, callbacks>>

\* Lines 211-219: onEnd of the long-press handler of trigger id, which was
\* active.
LongPressEnd(id) ==
    /\ longPress[id] = "active"
    /\ Handle("longPress", "onEnd", id)
    /\ longPress' = [longPress EXCEPT ![id] = "idle"]
    /\ IF ~isPanActive
       THEN isDragging' = FALSE /\ reactionPending' = TRUE
       ELSE UNCHANGED <<isDragging, reactionPending>>
    /\ jsQueue' = runOnJS(props.onLongPressEnd, "onLongPressEnd", id)
    /\ UNCHANGED <<draggableFrame, isPanActive, draggingId, initialPosition,
                   lastPosition, pan, previous, callbacks>>

\* Lines 110-116: onStart of the pan gesture, at a point.
PanStart(point) ==
    /\ pan = "idle"
    /\ Handle("pan", "onStart", "")
    /\ pan' = "active"
    /\ initialPosition' = point
    /\ isPanActive' = TRUE
    /\ UNCHANGED <<draggableFrame, isDragging, draggingId, lastPosition, longPress,
                   jsQueue, previous, reactionPending, callbacks>>

\* Lines 117-126: onUpdate of the pan gesture; onDragOver is called by the
\* handler itself.
PanUpdate(point) ==
    /\ pan = "active"
    /\ Handle("pan", "onUpdate", "")
    /\ lastPosition' = point
    /\ callbacks' = IF props.onDragOver
                    THEN Append(callbacks, Called("onDragOver", "", point))
                    ELSE callbacks
    /\ UNCHANGED <<draggableFrame, isDragging, isPanActive, draggingId,
                   initialPosition, longPress, pan, jsQueue, previous,
                   reactionPending>>

\* Lines 128-131: onEnd of the pan gesture.
PanEndKeepingDrag ==
    /\ pan = "active"
    /\ Handle("pan", "onEnd", "")
    /\ pan' = "idle"
    /\ isPanActive' = FALSE
    /\ UNCHANGED <<draggableFrame, isDragging, draggingId, initialPosition,
                   lastPosition, longPress, jsQueue, previous, reactionPending,
                   callbacks>>
PanEnd ==
    /\ pan = "active"
    /\ Handle("pan", "onEnd", "")
    /\ pan' = "idle"
    /\ isPanActive' = FALSE
    /\ isDragging' = FALSE
    /\ reactionPending' = TRUE
    /\ UNCHANGED <<draggableFrame, draggingId, initialPosition, lastPosition,
                   longPress, jsQueue, previous, callbacks>>

\* A Draggable rendered with two triggers, with its callback props or
\* without.
DraggableInit ==
    /\ StatsIdle
    /\ RunIdle
    /\ LayoutIdle
    /\ props \in {AllCallbacks, NoCallbacks}
    /\ Mounted

DraggableNext ==
    \/ \E id \in Triggers : LongPressActive(id)
    \/ \E id \in Triggers : LongPressEnd(id)
    \/ \E point \in Points : PanStart(point)
    \/ \E point \in Points : PanUpdate(point)
    \/ PanEnd
    \/ AnimatedReaction
    \/ JSThreadCalls

SpecDraggable == DraggableInit /\ [][DraggableNext]_vars

(***************************************************************************)
(* gutenberg_get_layout_position_style (wordpress-6.2/rest-api.php, lines  *)
(* 489-549): the rules it hands to the style engine.  A value of the style *)
(* object is a sequence: empty when the key is not set (null).             *)
(***************************************************************************)
\* Line 496.
sides == <<"top", "right", "bottom", "left">>

\* Line 512.
AdminBarHeight == "var(--wp-admin--admin-bar--height, 0px)"

\* Lines 505-509: the condition as PHP groups it, && before ||.
replacesSideValue(side, position_type) ==
    (side = "top" /\ position_type = "fixed") \/ position_type = "sticky"

\* Lines 515-521: the rule of one side.
sideRule(sel, side, side_value) ==
    [selector |-> sel, declarations |-> [p \in {side} |-> side_value]]

RECURSIVE sideRules(_, _, _, _)
\* Lines 498-522: the rules of the sides from the k-th on.
sideRules(sel, st, position_type, k) ==
    IF k > Len(sides) THEN <<>>
    ELSE LET side == sides[k]
             side_value == st[side]
             rest == sideRules(sel, st, position_type, k + 1)
         IN  IF side_value # <<>>
             THEN <<sideRule(sel, side,
                             IF replacesSideValue(side, position_type)
                             THEN AdminBarHeight ELSE side_value[1])>> \o rest
             ELSE rest

\* Lines 490-533: $position_styles for a selector and a style object.
positionStyles(sel, st) ==
    LET position_type == st.position
    IN  IF position_type \in {"fixed", "sticky"}
        THEN sideRules(sel, st, position_type, 1)
               \o <<[selector |-> sel,
                     declarations |->
                        [p \in {"position", "z-index"} |->
                            IF p = "position" THEN position_type ELSE "250"]]>>
        ELSE <<>>

\* The values a side of the style object has.
SideValues == {<<>>, <<"0px">>, <<"10px">>}

\* The style objects of a block: layout.position and the four sides.
Styles ==
    [position : {"", "static", "fixed", "sticky"},
     top : SideValues, right : SideValues, bottom : SideValues,
     left : SideValues]

\* A caller about to call the function on a selector and a style object.
LayoutInit ==
    /\ StatsIdle
    /\ RunIdle
    /\ DraggableIdle
    /\ selector = ".wp-container-1"
    /\ style \in Styles
    /\ position_styles = <<>>
    /\ lpc = "ready"

\* gutenberg_get_layout_position_style( $selector, $style )
CallGetLayoutPositionStyle ==
    /\ lpc = "ready"
    /\ position_styles' = positionStyles(selector, style)
    /\ lpc' = "returned"
    /\ UNCHANGED <<statVars, env, resultFiles, wpVersion, draggableVars,
                   runVars, selector, style>>

LayoutNext == CallGetLayoutPositionStyle

SpecLayout == LayoutInit /\ [][LayoutNext]_vars

\* The run as node schedules it: a statement that can run does run and an
\* awaited call settles, so the run keeps taking steps until it is done or
\* has failed.
SpecTerminating ==
    RunInit /\ [][Next]_vars
            /\ ([]<><<Next>>_vars \/ <>[](pc \in {"done", "failed"}))

(***************************************************************************)
(* Properties.                                                             *)
(***************************************************************************)
\* The operations of the calls issued so far that are `op`.
CallsOf(op) == {k \in DOMAIN calls : calls[k][1] = op}

\* The run has thrown out of a suite execution: its test command failed, or
\* its results file could not be read or curated.
SuiteExecutionFailed ==
    /\ pc = "failed"
    /\ error \in {"npm run test:performance", "readJSONFile"}
                \cup {curateError(file) : file \in resultFiles \ {Unreadable}}

\* C1: when a suite execution fails after its environment was started, the
\* environment's stop is issued before the error leaves the run: every start
\* issued has its stop, and no environment is left started.
C1_StopOnSuiteFailure ==
    SuiteExecutionFailed =>
        /\ running = <<>>
        /\ Cardinality(CallsOf("wp-env stop")) = Cardinality(CallsOf("wp-env start"))

\* C2: at most one environment is started at any time, and a start is only
\* issued when no environment is started.
C2_AtMostOneStarted ==
    /\ Len(running) <= 1
    /\ pc = "env_start" => running = <<>>

\* An environment is started after an earlier one was started and stopped.
C2_Witness ==
    /\ Len(running) = 1
    /\ Cardinality(CallsOf("wp-env start")) >= 2
    /\ CallsOf("wp-env stop") # {}
    /\ \E k \in CallsOf("wp-env start") : calls[k][2] # running[1]

\* The calls that clone, fetch, build, start or execute.
WorkCalls == {k \in DOMAIN calls : calls[k][1] # "askForConfirmation"}

\* C3: once the refs are resolved, fewer than two of them means the run has
\* failed, and it has neither cloned, fetched, built, started nor executed
\* anything.
C3_FailsBelowTwoRefs ==
    (pc \notin {"begin", "confirm", "resolve"} /\ Len(refs) < 2) =>
        (pc = "failed" /\ WorkCalls = {})

\* s is an initial part of t.
IsPrefix(s, t) == Len(s) <= Len(t) /\ s = SubSeq(t, 1, Len(s))

\* C4: in every suite, each round visits the refs in the order of the first
\* round, which is the order of the resolved list; after the suites have run
\* every round has visited the whole list.
C4_SameOrderEveryRound ==
    \A s \in DOMAIN testSuites : \A k \in 1..roundCount :
        /\ IsPrefix(visited[s][k], visited[s][1])
        /\ IsPrefix(visited[s][1], refs)
        /\ pc \in {"report", "done"} => visited[s][k] = refs

\* A run of two different refs has finished all rounds of both suites.
C4_Witness ==
    /\ pc = "done"
    /\ Len(refs) = 2
    /\ refs[1] # refs[2]
    /\ visited[2][3] = refs

\* C5: when the medians of a suite are computed, there are exactly 3 rounds,
\* each holding a curated bundle for every ref, so every median is over
\* exactly 3 samples.
C5_ThreeBundlesPerPair ==
    pc = "medians" =>
        /\ Len(rawResults) = 3
        /\ \A ref \in Range(refs) :
              /\ \A k \in 1..3 :
                    /\ ref \in DOMAIN rawResults[k]
                    /\ DOMAIN rawResults[k][ref] = CuratedKeys
              /\ \A key \in CuratedKeys : Len(column(rawResults, ref, key)) = 3

\* The medians of the second suite are about to be computed for two refs.
C5_Witness ==
    /\ pc = "medians"
    /\ suiteIdx = 2
    /\ Cardinality(Range(refs)) = 2

\* C6: after a successful run the results table and the written results file
\* of every suite hold an entry for every ref.
C6_EveryPairInTable ==
    pc = "done" =>
        \A s \in Range(testSuites) : \A ref \in Range(refs) :
            /\ s \in DOMAIN results
            /\ ref \in DOMAIN results[s]
            /\ s \in DOMAIN artifacts
            /\ ref \in DOMAIN artifacts[s]
            /\ artifacts[s][ref] = results[s][ref]

\* A run of two refs has succeeded.
C6_Witness ==
    /\ pc = "done"
    /\ Cardinality(Range(refs)) = 2
    /\ DOMAIN artifacts = Range(testSuites)

\* x <= y on finite numbers.
LessEq(x, y) == x[1] * y[2] <= y[1] * x[2]

\* The one of three finite numbers that is neither below nor above both others.
Middle3(a, b, c) ==
    IF (LessEq(a, b) /\ LessEq(b, c)) \/ (LessEq(c, b) /\ LessEq(b, a)) THEN b
    ELSE IF (LessEq(b, a) /\ LessEq(a, c)) \/ (LessEq(c, a) /\ LessEq(a, b)) THEN a
    ELSE c

\* The suite whose medians were computed last, as an index of testSuites (0:
\* none yet).
AggregatedSuite ==
    IF pc = "suite_begin" THEN suiteIdx - 1
    ELSE IF pc \in {"report", "done"} THEN Len(testSuites)
    ELSE 0

\* C7: the table value of a suite, ref and key is formatTime of the median of
\* the three rounds' curated values of that ref and key.
C7_TableIsFormattedMedian ==
    AggregatedSuite > 0 =>
        \A ref \in Range(refs) : \A key \in CuratedKeys :
            results[testSuites[AggregatedSuite]][ref][key] =
                formatTime(Middle3(rawResults[1][ref][key],
                                   rawResults[2][ref][key],
                                   rawResults[3][ref][key]))

\* trunk's serverResponse averaged 100, 110 and 105 in the three rounds of the
\* last suite, feature-x measured otherwise, and the table holds 105.
C7_Witness ==
    /\ pc = "done"
    /\ rawResults[1]["trunk"]["serverResponse"] = Num(100)
    /\ rawResults[2]["trunk"]["serverResponse"] = Num(110)
    /\ rawResults[3]["trunk"]["serverResponse"] = Num(105)
    /\ rawResults[2]["feature-x"]["serverResponse"] = Num(100)
    /\ results["site-editor"]["trunk"]["serverResponse"] = Num(105)
    /\ results["site-editor"]["trunk"]["focus"] = <<233, 100>>

\* How many elements of a are below v, and how many are not above it.
CountBelow(a, v) == Cardinality({k \in DOMAIN a : ~LessEq(v, a[k])})
CountNotAbove(a, v) == Cardinality({k \in DOMAIN a : LessEq(a[k], v)})

\* v is the element at position k (from 1) of a in ascending order.
IsKthSmallest(a, v, k) ==
    /\ v \in Range(a)
    /\ CountBelow(a, v) < k
    /\ CountNotAbove(a, v) >= k

\* C8: on a non-empty array median returns the middle element in ascending
\* order when the length is odd, and the mean of the two middle elements when
\* it is even; [1,2,3] gives 2 and [1,2,3,4] gives 2.5.
C8_MedianIsMiddle ==
    (spc \in {"returned", "compared"} /\ array # <<>>) =>
        /\ Len(array) % 2 = 1 =>
              IsKthSmallest(array, ret, (Len(array) + 1) \div 2)
        /\ Len(array) % 2 = 0 =>
              \E lo, hi \in Range(array) :
                  /\ IsKthSmallest(array, lo, Len(array) \div 2)
                  /\ IsKthSmallest(array, hi, Len(array) \div 2 + 1)
                  /\ ret[2] > 0
                  /\ 2 * ret[1] * lo[2] * hi[2] = (lo[1] * hi[2] + hi[1] * lo[2]) * ret[2]
        /\ array = <<Num(1), Num(2), Num(3)>> => ret = Num(2)
        /\ array = <<Num(1), Num(2), Num(3), Num(4)>> => ret = <<5, 2>>

\* median was called on an unsorted array of even length whose two middle
\* values differ.
C8_Witness ==
    /\ spc = "returned"
    /\ array = <<Num(4), Num(1), Num(3), Num(2)>>
    /\ ret = <<5, 2>>

\* C9: median returns the same value on an array and on any reordering of it.
C9_MedianPermutationInvariant ==
    spc = "compared" => retPermuted = ret

\* median was called on an array and on a different ordering of its values.
C9_Witness ==
    /\ spc = "compared"
    /\ array = <<Num(1), Num(2), Num(3), Num(4)>>
    /\ permuted = <<Num(3), Num(1), Num(4), Num(2)>>

\* C10: a call of median leaves the caller's array as it was.
C10_MedianLeavesArgument ==
    [][(spc = "ready" /\ spc' = "returned") => array' = array]_vars

\* median has returned from a call on an array that is not in ascending order.
C10_Witness ==
    /\ spc = "returned"
    /\ array = <<Num(3), Num(1), Num(2)>>

RECURSIVE IntegerSum(_)
\* The sum of an array of integers.
IntegerSum(a) == IF a = <<>> THEN 0 ELSE Head(a)[1] + IntegerSum(Tail(a))

\* x is the arithmetic mean of the non-empty array a of integers.
IsMeanOf(x, a) == isFinite(x) /\ x[1] * Len(a) = IntegerSum(a) * x[2]

\* C11: average returns the arithmetic mean of every non-empty array
\* ([10, 20, 30] gives 20), and of the empty array it returns a number that
\* is not finite, never a finite one.
C11_AverageIsMean ==
    spc = "averaged" =>
        /\ array # <<>> => IsMeanOf(ret, array)
        /\ array = <<>> => ~isFinite(ret)
        /\ array = ExampleArray => ret = Num(20)

C11_Witness == spc = "averaged" /\ array = ExampleArray /\ ret = Num(20)

\* The integer k with ret = k / 100, when ret is a number of hundredths.
Hundredths(x) == x[1] * (100 \div x[2])

\* x is a finite number with at most two decimals.
HasTwoDecimals(x) == isFinite(x) /\ 100 % x[2] = 0

\* The integer nearest to the finite number y, a half going away from zero.
RoundHalfAwayFromZero(y) ==
    LET magnitude == (2 * Abs(y[1]) + y[2]) \div (2 * y[2])
    IN  IF y[1] < 0 THEN -magnitude ELSE magnitude

\* C12 as stated: formatTime gives the number scaled by 100, rounded with
\* halves going away from zero, over 100, for negative numbers and exact
\* halves too. It fails for -0.125, which formatTime gives as -0.12.
C12_RoundsHalfAwayFromZero ==
    spc = "formatted" =>
        /\ HasTwoDecimals(ret)
        /\ Hundredths(ret)
              = RoundHalfAwayFromZero(<<100 * number[1], number[2]>>)

\* C12, amended: formatTime gives k / 100 for the integer k with
\* k - 1/2 <= 100 * number < k + 1/2, so a half goes up (toward +Infinity);
\* for a number that is not negative this is the rounding with halves away
\* from zero. 12.345 gives 12.35, 12.344 gives 12.34, -0.125 gives -0.12.
C12_RoundsHalfUp ==
    spc = "formatted" =>
        /\ HasTwoDecimals(ret)
        /\ (2 * Hundredths(ret) - 1) * number[2] <= 200 * number[1]
        /\ 200 * number[1] < (2 * Hundredths(ret) + 1) * number[2]
        /\ number[1] >= 0 =>
              Hundredths(ret)
                 = RoundHalfAwayFromZero(<<100 * number[1], number[2]>>)
        /\ number = Norm(12345, 1000) => ret = Norm(1235, 100)
        /\ number = Norm(12344, 1000) => ret = Norm(1234, 100)

C12_Witness ==
    spc = "formatted" /\ number = Norm(-1, 8) /\ ret = Norm(-12, 100)

\* x is the least (greatest) of the samples a.
IsLeastOf(x, a) == x \in Range(a) /\ \A k \in DOMAIN a : LessEq(x, a[k])
IsGreatestOf(x, a) == x \in Range(a) /\ \A k \in DOMAIN a : LessEq(a[k], x)

\* C13: of a raw bundle with all twelve metrics, each with a sample,
\* curateResults gives per metric the average of its samples, and a minimum
\* and a maximum, the least and the greatest sample, for type, focus,
\* inserterOpen, inserterSearch, inserterHover and listViewOpen and for no
\* other metric (type [10, 20, 30] gives type 20, minType 10, maxType 30).
C13_CuratedBundle ==
    spc = "curated" =>
        /\ DOMAIN ret = Metrics \cup {t[2] : t \in MinMaxKeys}
                                \cup {t[3] : t \in MinMaxKeys}
        /\ Cardinality(DOMAIN ret) = 24
        /\ {t[1] : t \in MinMaxKeys}
              = {"type", "focus", "inserterOpen", "inserterSearch",
                 "inserterHover", "listViewOpen"}
        /\ \A m \in Metrics : IsMeanOf(ret[m], rawBundle[m])
        /\ \A t \in MinMaxKeys :
              /\ IsLeastOf(ret[t[2]], rawBundle[t[1]])
              /\ IsGreatestOf(ret[t[3]], rawBundle[t[1]])
        /\ rawBundle["type"] = ExampleArray =>
              /\ ret["type"] = Num(20)
              /\ ret["minType"] = Num(10)
              /\ ret["maxType"] = Num(30)

C13_Witness ==
    /\ spc = "curated"
    /\ rawBundle["type"] = ExampleArray
    /\ ret["type"] = Num(20)
    /\ ret["minType"] = Num(10)
    /\ ret["maxType"] = Num(30)

\* The positions of the dots of a string.
dotPositions(s) == {k \in DOMAIN s : s[k] = "."}

\* s has the form X.Y: two runs of digits around one dot.
IsMajorMinor(s) ==
    \E i \in DOMAIN s :
        /\ dotPositions(s) = {i}
        /\ isDigitRun(s, 1, i - 1)
        /\ isDigitRun(s, i + 1, Len(s))

\* s has the form X.Y.Z, the second dot at position j.
IsMajorMinorPatchAt(s, j) ==
    \E i \in 1..(j - 1) :
        /\ dotPositions(s) = {i, j}
        /\ isDigitRun(s, 1, i - 1)
        /\ isDigitRun(s, i + 1, j - 1)
        /\ isDigitRun(s, j + 1, Len(s))

\* C17 as stated: the archive version is the base version without its patch
\* part when the base version has the form X.Y.0, and the base version
\* itself when it has the form X.Y, or X.Y.Z with Z not zero; the URL is
\* wordpress-<archive version>.zip. It fails for 6.100, which the pattern of
\* line 288 turns into 6.1.
C17_PatchZeroRemoved ==
    spc = "versioned" =>
        /\ ret.zipUrl
              = <<"https://wordpress.org/wordpress-">> \o ret.zipVersion
                   \o <<".zip">>
        /\ \A j \in DOMAIN version :
              IsMajorMinorPatchAt(version, j) =>
                 /\ SubSeq(version, j + 1, Len(version)) = <<"0">> =>
                       ret.zipVersion = SubSeq(version, 1, j - 1)
                 /\ (\E k \in (j + 1)..Len(version) : version[k] # "0") =>
                       ret.zipVersion = version
        /\ IsMajorMinor(version) => ret.zipVersion = version

\* runTestSuite has read a results file that lacks a metric.
ReadFileLacksMetric ==
    suiteRawResults # NoFile /\ curateThrows(suiteRawResults)

\* Every bundle the accumulator holds is a whole curated bundle.
AccumulatorHoldsWholeBundles ==
    \A k \in DOMAIN rawResults : \A r \in DOMAIN rawResults[k] :
        DOMAIN rawResults[k][r] = CuratedKeys

\* C14 as stated: when a results file lacks one of the twelve metrics,
\* curation fails with a MissingMetric error that names the absent metric,
\* and no curated bundle is produced or stored. curateResults checks no key:
\* the failure is the TypeError of average( undefined ), which names no
\* metric, so the error part is violated in the run whose results file lacks
\* `type`; the all-or-nothing part holds.
C14_MissingMetricError ==
    ReadFileLacksMetric =>
        /\ pc = "failed"
        /\ error \in {"MissingMetric: " \o m :
                         m \in Metrics \ DOMAIN suiteRawResults}
        /\ currentRef \notin DOMAIN rawResults[round + 1]
        /\ AccumulatorHoldsWholeBundles

\* The calls issued so far of `op` on `target`.
CallsOn(op, target) == {k \in CallsOf(op) : calls[k][2] = target}

\* A trial round has begun.
TrialsBegun == CallsOf("wp-env start") # {}

\* C15: once the trial rounds have begun, every revision is bound to one
\* environment directory, which was made once and built once, before the
\* first start; every start is of the directory of one of the revisions.
C15_OneEnvironmentPerRevision ==
    TrialsBegun =>
        /\ \A ref \in Range(refs) :
              /\ ref \in DOMAIN branchDirectories
              /\ branchDirectories[ref] = environmentDirectory(ref)
              /\ Cardinality(CallsOn("mkdir", branchDirectories[ref])) = 1
              /\ Cardinality(CallsOn("npm ci && npm run build",
                                     branchDirectories[ref])) = 1
        /\ \A k \in CallsOf("mkdir") \cup CallsOf("npm ci && npm run build")
                     \cup CallsOf("cp .wp-env.performance.json") :
              \A j \in CallsOf("wp-env start") : k < j
        /\ \A j \in CallsOf("wp-env start") :
              \E ref \in Range(refs) : calls[j][2] = branchDirectories[ref]

C15_Witness ==
    /\ pc = "done"
    /\ Len(refs) = 2
    /\ Cardinality(CallsOf("wp-env start")) = 2 * roundCount * Len(testSuites)
    /\ Cardinality(CallsOf("mkdir")) = 2

\* Every call of `later` on `laterTarget` has a call of `earlier` on
\* `earlierTarget` before it.
Precedes(earlier, earlierTarget, later, laterTarget) ==
    \A k \in CallsOn(later, laterTarget) :
        \E j \in CallsOn(earlier, earlierTarget) : j < k

\* C16 as stated: per revision the fetch, then the checkout of the revision,
\* then the copy into the environment directory, then install and build,
\* then the copy of the configuration, then the patch. It fails on the
\* second revision: only refs[ 0 ] is checked out before the copies.
C16_CheckoutBeforeCopy ==
    \A ref \in DOMAIN branchDirectories :
        LET dir == branchDirectories[ref]
        IN  /\ \A k \in CallsOn("cp -R base", dir) :
                  \E j \in 1..(k - 1) :
                      /\ calls[j][2] = ref
                      /\ calls[j][1] \in {"git checkout", "git reset && git checkout"}
            /\ Precedes("git fetch", ref, "cp -R base", dir)
            /\ Precedes("cp -R base", dir, "npm ci && npm run build", dir)

\* C16, amended: per revision the fetch, then the copy of the base working
\* copy into the environment directory, then the reset and checkout of the
\* revision inside the copy, then install and build, then the copy of the
\* configuration, then, when a base version was given and only then, the
\* read and the write of the patch. The base working copy is checked out at
\* refs[ 0 ] only, before the first copy.
C16_ProvisioningOrder ==
    /\ \A ref \in DOMAIN branchDirectories :
          LET dir == branchDirectories[ref]
          IN  /\ Precedes("git fetch", ref, "mkdir", dir)
              /\ Precedes("mkdir", dir, "cp -R base", dir)
              /\ Precedes("cp -R base", dir, "git reset && git checkout", ref)
              /\ Precedes("git reset && git checkout", ref,
                          "npm ci && npm run build", dir)
              /\ Precedes("npm ci && npm run build", dir,
                          "cp .wp-env.performance.json", dir)
              /\ Precedes("cp .wp-env.performance.json", dir,
                          "readJSONFile .wp-env.json", dir)
              /\ Precedes("readJSONFile .wp-env.json", dir,
                          "writeFileSync .wp-env.json", dir)
    /\ \A k \in CallsOf("git checkout") :
          /\ calls[k][2] = refs[1]
          /\ \A j \in CallsOf("cp -R base") : k < j
    /\ wpVersion = <<>> => CallsOf("readJSONFile .wp-env.json") = {}
    /\ (wpVersion # <<>> /\ TrialsBegun) =>
          \A ref \in Range(refs) :
              CallsOn("writeFileSync .wp-env.json", branchDirectories[ref]) # {}

C16_Witness ==
    /\ pc = "suite_begin"
    /\ refs = <<"trunk", "feature-x">>
    /\ CallsOn("writeFileSync .wp-env.json", "feature-x") # {}
    /\ \E k \in CallsOn("cp -R base", "feature-x") :
          \E j \in CallsOn("git reset && git checkout", "feature-x") : k < j

\* The steps of provisioning, by the name their failure is thrown under.
ProvisioningOps ==
    {"mkdirSync", "git init", "git fetch", "git checkout", "mkdir -p",
     "cp -R base", "npm ci && npm run build:packages", "mkdir",
     "git reset && git checkout", "npm ci && npm run build",
     "cp .wp-env.performance.json", "readJSONFile .wp-env.json",
     "writeFileSync .wp-env.json"}

\* C18: when a provisioning step has failed the run has ended with its
\* error, the failed step is the last that was issued, no environment was
\* started and no suite executed, and nothing was issued that removes what
\* the earlier steps made.
C18_ProvisioningFailsFast ==
    error \in ProvisioningOps =>
        /\ pc = "failed"
        /\ calls[Len(calls)][1] = error
        /\ CallsOf("wp-env start") = {}
        /\ CallsOf("npm run test:performance") = {}
        /\ \A k \in DOMAIN calls :
              calls[k][1] \in ProvisioningOps \cup {"askForConfirmation", "cd"}

C18_Witness ==
    /\ pc = "failed"
    /\ error = "npm ci && npm run build"
    /\ refIdx = 2
    /\ Cardinality(DOMAIN wpEnvJson) = 1

\* C19: while an operation that was issued has not completed, no later step
\* has been issued: the operation is the last of the calls. It fails on the
\* `cd` of line 214, which is not awaited.
C19_NothingInFlight ==
    \A op \in inFlight : calls[Len(calls)] = op

\* C20 as stated: when the run has ended, a results file was written for
\* every suite or for none. It fails when the write of the second suite's
\* file throws after the first was written.
C20_AllOrNothing ==
    pc \in {"done", "failed"} =>
        DOMAIN artifacts \in {{}, Range(testSuites)}

\* C20, amended: results files are written only after every suite was
\* measured and aggregated, one per suite in the order of the suites, so the
\* files written are those of the first suites; a run that ends without
\* error has written one for every suite, and a run that failed in anything
\* but a write has written none.
C20_ArtifactsAfterAllSuites ==
    /\ \E n \in 0..Len(testSuites) :
          DOMAIN artifacts = {testSuites[k] : k \in 1..n}
    /\ pc = "done" => DOMAIN artifacts = Range(testSuites)
    /\ (pc = "failed" /\ error # "writeFileSync") => DOMAIN artifacts = {}
    /\ DOMAIN artifacts # {} =>
          /\ DOMAIN results = Range(testSuites)
          /\ \A suite \in DOMAIN artifacts : artifacts[suite] = results[suite]

C20_Witness ==
    /\ pc = "failed"
    /\ error = "writeFileSync"
    /\ DOMAIN artifacts = {"post-editor"}

\* The errors a failed suite execution throws: of the test command, of the
\* read of the results file, and of the curation.
SuiteExecutionErrors ==
    {"npm run test:performance", "readJSONFile",
     "TypeError: Cannot read properties of undefined (reading 'reduce')"}

\* C21: when a suite execution has failed, the run has ended with its error:
\* the failed step is the last call issued, so no execution was started after
\* it, and no medians were computed for the suite whose accumulator is
\* partial; nothing was displayed or written.
C21_SuiteFailureAborts ==
    error \in SuiteExecutionErrors =>
        /\ pc = "failed"
        /\ calls[Len(calls)][1] \in {"npm run test:performance", "readJSONFile"}
        /\ calls[Len(calls)][2] = testSuites[suiteIdx]
        /\ results[testSuites[suiteIdx]] = EmptyObject
        /\ \A s \in DOMAIN results :
              results[s] # EmptyObject => DOMAIN results[s] = Range(refs)
        /\ tables = EmptyObject
        /\ artifacts = EmptyObject

\* The test command fails in the second round of the second suite, after the
\* first ref of that round was measured.
C21_Witness ==
    /\ pc = "failed"
    /\ error = "npm run test:performance"
    /\ suiteIdx = 2
    /\ round = 1
    /\ refIdx = 2
    /\ DOMAIN rawResults[2] = {refs[1]}

\* The provisioning steps made for a revision or its environment directory.
PerRevisionOps ==
    {"git fetch", "mkdir", "cp -R base", "git reset && git checkout",
     "npm ci && npm run build", "cp .wp-env.performance.json",
     "readJSONFile .wp-env.json", "writeFileSync .wp-env.json"}

\* The loop bodies begun so far, as <<suite, round, position in the round>>.
ExecutionsBegun ==
    {<<s, k, i>> \in (DOMAIN visited) \X (1..roundCount) \X (DOMAIN refs) :
        i \in DOMAIN visited[s][k]}

\* The start, the test command and the stop were each issued at most once
\* for every round of a suite on a ref, and a failed step is the last issued.
EachExecutionOnce ==
    /\ \A s \in DOMAIN visited : \A k \in 1..roundCount :
          \A i, j \in DOMAIN visited[s][k] :
              visited[s][k][i] = visited[s][k][j] => i = j
    /\ Cardinality(CallsOf("wp-env start")) = Cardinality(ExecutionsBegun)
    /\ Cardinality(CallsOf("npm run test:performance"))
          <= Cardinality(CallsOf("wp-env start"))
    /\ Cardinality(CallsOf("wp-env stop"))
          <= Cardinality(CallsOf("npm run test:performance"))
    /\ error \in {calls[k][1] : k \in DOMAIN calls} =>
          pc = "failed" /\ calls[Len(calls)][1] = error

\* C22 as stated: every provisioning step is issued at most once per
\* revision, every start, test command and stop at most once per round of a
\* suite on a revision, and a failed step is never issued again. It fails for
\* a revision that is listed twice, which is fetched twice.
C22_OncePerRevision ==
    /\ \A k, j \in DOMAIN calls :
          (calls[k][1] \in ProvisioningOps /\ calls[k] = calls[j]) => k = j
    /\ EachExecutionOnce

\* The positions of the revision list that hold `ref`, and those whose
\* environment directory is `dir`.
PositionsOf(ref) == {i \in DOMAIN refs : refs[i] = ref}
PositionsAt(dir) == {i \in DOMAIN refs : environmentDirectory(refs[i]) = dir}

\* C22, amended: every provisioning step is issued at most once per entry of
\* the revision list: once per revision when each is listed once, while a
\* revision listed twice is fetched twice and the second mkdir of its
\* directory fails; every other step is issued at most once. Every start,
\* test command and stop is issued at most once per round of a suite on a
\* revision, and a failed step is never issued again.
C22_OncePerListEntry ==
    /\ \A k \in DOMAIN calls :
          LET same == {j \in DOMAIN calls : calls[j] = calls[k]}
          IN  /\ calls[k][1] = "git fetch" =>
                    Cardinality(same) <= Cardinality(PositionsOf(calls[k][2]))
              /\ calls[k][1] = "mkdir" =>
                    Cardinality(same) <= Cardinality(PositionsAt(calls[k][2]))
              /\ calls[k][1] \in ProvisioningOps \ {"git fetch", "mkdir"} =>
                    same = {k}
              /\ (calls[k][1] \in ProvisioningOps
                     /\ Cardinality(PositionsAt(calls[k][2])) <= 1
                     /\ Cardinality(PositionsOf(calls[k][2])) <= 1) =>
                    same = {k}
    /\ EachExecutionOnce

\* The stop fails in the last round of the second suite, every start so far
\* having been issued once and stopped once.
C22_Witness ==
    /\ pc = "failed"
    /\ error = "wp-env stop"
    /\ suiteIdx = 2
    /\ round = 2
    /\ Len(refs) = 2
    /\ Cardinality(CallsOf("wp-env stop")) = Cardinality(CallsOf("wp-env start"))

\* C23: in CI the confirmation is never asked for; outside CI it is asked for
\* once, as the first call of the run, so before every provisioning step, and
\* when it is refused nothing else is issued.
C23_ConfirmationOnceWhenInteractive ==
    /\ env.CI # undefined => CallsOf("askForConfirmation") = {}
    /\ env.CI = undefined =>
          /\ CallsOf("askForConfirmation") \subseteq {1}
          /\ calls # <<>> => calls[1] = <<"askForConfirmation", "">>
          /\ pc \notin {"idle", "begin", "confirm"} =>
                CallsOf("askForConfirmation") = {1}
          /\ error = "askForConfirmation" => pc = "failed" /\ Len(calls) = 1

\* Outside CI, provisioning has begun after one confirmation.
C23_Witness ==
    /\ env.CI = undefined
    /\ pc = "fetch"
    /\ calls[1] = <<"askForConfirmation", "">>
    /\ Cardinality(CallsOf("askForConfirmation")) = 1

\* The list of refs was resolved (line 204 has run).
RefsResolved ==
    /\ pc \notin {"idle", "begin", "confirm", "resolve"}
    /\ error # "askForConfirmation"

\* C24: the resolved list is the branches given, when any is given; else, in
\* CI, the merge ref and the base ref of the environment; else trunk alone.
\* It is never empty and holds defined refs only. It fails in a CI job whose
\* environment has no GITHUB_BASE_REF: the list is [sha, undefined].
C24_ResolvedRefs ==
    RefsResolved =>
        /\ branchesWereSpecified => refs = branches
        /\ (~branchesWereSpecified /\ env.CI # undefined) =>
              refs = <<env.GITHUB_SHA, env.GITHUB_BASE_REF>>
        /\ (~branchesWereSpecified /\ env.CI = undefined) => refs = <<"trunk">>
        /\ Len(refs) > 0
        /\ \A i \in DOMAIN refs : refs[i] # undefined

\* C25: the table displayed has the entry "<value> ms" for a metric and a
\* ref exactly when the aggregated value of the ref for the metric is finite;
\* NaN, Infinity and -Infinity are never displayed, and a metric has a row
\* only when some ref has a finite value for it.
C25_OnlyFiniteDisplayed ==
    spc = "reported" =>
        /\ DOMAIN ret \subseteq CuratedKeys
        /\ \A metric \in DOMAIN ret :
              /\ DOMAIN ret[metric] # {}
              /\ DOMAIN ret[metric] \subseteq DOMAIN aggregated
              /\ \A ref \in DOMAIN ret[metric] :
                    /\ ret[metric][ref] = <<aggregated[ref][metric], "ms">>
                    /\ ret[metric][ref][1][2] > 0
        /\ \A ref \in DOMAIN aggregated : \A metric \in CuratedKeys :
              aggregated[ref][metric][2] > 0 =>
                 metric \in DOMAIN ret /\ ref \in DOMAIN ret[metric]

\* One ref has no sample of `type` and the other has: the row of type has one
\* entry; no ref has a sample of `focus`: no row.
C25_Witness ==
    /\ spc = "reported"
    /\ DOMAIN aggregated = {"trunk", "feature-x"}
    /\ aggregated["trunk"]["type"] = NaN
    /\ aggregated["trunk"]["minType"] = Infinity
    /\ "type" \in DOMAIN ret
    /\ DOMAIN ret["type"] = {"feature-x"}
    /\ "focus" \notin DOMAIN ret

\* C26: a test command is issued only right after the start of an
\* environment, which is then started; every start is followed by one test
\* command, the read of the results, and the stop of the environment that
\* was started; and in a run that succeeded every environment was started
\* and stopped once per round of a suite, 2 x 3 = 6 times.
C26_StartExecuteStopCycle ==
    /\ \A k \in CallsOf("npm run test:performance") :
          k > 1 /\ calls[k - 1][1] = "wp-env start"
    /\ pc \in {"run_test", "read_results", "env_stop"} =>
          running = <<branchDirectories[currentRef]>>
    /\ \A k \in CallsOf("wp-env start") :
          /\ k + 1 <= Len(calls) => calls[k + 1][1] = "npm run test:performance"
          /\ k + 2 <= Len(calls) => calls[k + 2][1] = "readJSONFile"
          /\ k + 3 <= Len(calls) => calls[k + 3] = <<"wp-env stop", calls[k][2]>>
          /\ k + 4 <= Len(calls) =>
                calls[k + 4][1] \in {"wp-env start", "writeFileSync"}
    /\ \A k \in CallsOf("wp-env stop") :
          k > 3 /\ calls[k - 3] = <<"wp-env start", calls[k][2]>>
    /\ pc = "done" =>
          /\ running = <<>>
          /\ \A ref \in Range(refs) :
                /\ Cardinality(CallsOn("wp-env start", branchDirectories[ref])) = 6
                /\ Cardinality(CallsOn("wp-env stop", branchDirectories[ref])) = 6
          /\ Cardinality(CallsOf("npm run test:performance")) = 6 * Len(refs)
          /\ Len(testSuites) * roundCount = 6

\* A run of two refs has succeeded, the environment of the second ref
\* stopped six times.
C26_Witness ==
    /\ pc = "done"
    /\ Len(refs) = 2
    /\ running = <<>>
    /\ Cardinality(CallsOn("wp-env stop", branchDirectories[refs[2]])) = 6

\* C27: the results file of a suite is read right after the test command of
\* that suite, which follows the start; the stop follows the read; and when
\* the read has returned, the bundle curated from the file is recorded under
\* the ref whose environment directory was started.
C27_ExecutionOrder ==
    /\ \A k \in CallsOf("readJSONFile") :
          /\ k > 2
          /\ calls[k - 1] = <<"npm run test:performance", calls[k][2]>>
          /\ calls[k - 2][1] = "wp-env start"
    /\ \A k \in CallsOf("wp-env stop") : calls[k - 1][1] = "readJSONFile"
    /\ pc = "env_stop" =>
          /\ calls[Len(calls) - 2] = <<"wp-env start", branchDirectories[currentRef]>>
          /\ DOMAIN rawResults[round + 1] = {refs[i] : i \in 1..refIdx}
          /\ rawResults[round + 1][currentRef] = curateResults(suiteRawResults)
          /\ \A m \in Metrics :
                IsMeanOf(rawResults[round + 1][currentRef][m], suiteRawResults[m])

\* The second ref was measured in the second round of the second suite, and
\* its environment is about to be stopped.
C27_Witness ==
    /\ pc = "env_stop"
    /\ suiteIdx = 2
    /\ round = 1
    /\ refIdx = 2
    /\ refs[2] \in DOMAIN rawResults[2]
    /\ calls[Len(calls)] = <<"readJSONFile", "site-editor">>

\* The position of a suite in testSuites.
suiteIndex(name) == CHOOSE i \in DOMAIN testSuites : testSuites[i] = name

\* C28: the suites are processed one after another: the test commands of a
\* suite all come before those of the next, and when the first execution of a
\* suite has begun, every round of the suite before it has run for every
\* ref, with all its test commands, and its medians are computed.
C28_SuitesOneAfterAnother ==
    /\ \A j, k \in CallsOf("npm run test:performance") :
          j < k => suiteIndex(calls[j][2]) <= suiteIndex(calls[k][2])
    /\ \A s \in 2..Len(testSuites) :
          visited[s][1] # <<>> =>
             /\ \A k \in 1..roundCount : visited[s - 1][k] = refs
             /\ Cardinality(CallsOn("npm run test:performance", testSuites[s - 1]))
                   = roundCount * Len(refs)
             /\ testSuites[s - 1] \in DOMAIN results
             /\ DOMAIN results[testSuites[s - 1]] = Range(refs)

\* The first execution of the second suite has started, for two refs.
C28_Witness ==
    /\ pc = "run_test"
    /\ Len(refs) = 2
    /\ visited[2][1] = <<refs[1]>>
    /\ DOMAIN results["post-editor"] = Range(refs)

\* C29 as stated: a round is a pass over every suite and every ref: when an
\* execution of round k + 1 has begun, every suite has been executed against
\* every ref in round k. It fails: the rounds are the inner loop, and the
\* second round of the first suite begins before any round of the second.
C29_RoundSpansSuites ==
    \A s \in DOMAIN testSuites : \A k \in 1..(roundCount - 1) :
        visited[s][k + 1] # <<>> =>
           \A other \in DOMAIN testSuites : visited[other][k] = refs

\* C29, amended: a round is a pass of one suite over every ref: when an
\* execution of round k + 1 of a suite has begun, the suite has been executed
\* against every ref in its round k; and when the first round of a suite has
\* begun, the last round of the suite before it has run for every ref.
C29_RoundWithinSuite ==
    /\ \A s \in DOMAIN testSuites : \A k \in 1..(roundCount - 1) :
          visited[s][k + 1] # <<>> => visited[s][k] = refs
    /\ \A s \in 2..Len(testSuites) :
          visited[s][1] # <<>> => visited[s - 1][roundCount] = refs

\* The second round of the first suite has begun for two refs, no round of
\* the second suite having begun.
C29_Witness ==
    /\ Len(refs) = 2
    /\ visited[1][1] = refs
    /\ visited[1][2] # <<>>
    /\ visited[2][1] = <<>>

\* C30: when the first environment is started, every ref of the list has its
\* environment directory made, built and configured (and patched, when a
\* base version was given), and no provisioning step is issued after a start.
C30_ProvisionedBeforeTrials ==
    TrialsBegun =>
        /\ \A ref \in Range(refs) :
              LET dir == environmentDirectory(ref)
              IN  /\ CallsOn("mkdir", dir) # {}
                  /\ CallsOn("cp -R base", dir) # {}
                  /\ CallsOn("git reset && git checkout", ref) # {}
                  /\ CallsOn("npm ci && npm run build", dir) # {}
                  /\ CallsOn("cp .wp-env.performance.json", dir) # {}
                  /\ dir \in DOMAIN wpEnvJson
                  /\ wpVersion # <<>> =>
                        CallsOn("writeFileSync .wp-env.json", dir) # {}
        /\ \A k \in DOMAIN calls : \A j \in CallsOf("wp-env start") :
              calls[k][1] \in ProvisioningOps => k < j

\* The first environment of two was started, on a base version.
C30_Witness ==
    /\ pc = "run_test"
    /\ Len(refs) = 2
    /\ wpVersion # <<>>
    /\ Cardinality(CallsOf("wp-env start")) = 1
    /\ Cardinality(DOMAIN wpEnvJson) = 2

\* The (round, ref) pairs that have a curated bundle of the suite being run.
Recorded(raw) ==
    {p \in (DOMAIN raw) \X UNION {DOMAIN raw[k] : k \in DOMAIN raw} :
        p[2] \in DOMAIN raw[p[1]]}

\* C31: within a suite the accumulator only grows: a step other than the
\* beginning of a suite keeps every recorded bundle as it is, a step that
\* records a bundle adds exactly the pair of the execution and leaves the
\* results alone, and the results of a suite other than the one being run are
\* never changed.
C31_AccumulatorAppendOnly ==
    [][/\ pc # "suite_begin" =>
             \A p \in Recorded(rawResults) :
                 /\ p \in Recorded(rawResults')
                 /\ rawResults'[p[1]][p[2]] = rawResults[p[1]][p[2]]
       /\ (pc = "read_results" /\ pc' = "env_stop") =>
             /\ Recorded(rawResults') =
                   Recorded(rawResults) \cup {<<round + 1, currentRef>>}
             /\ <<round + 1, currentRef>> \notin Recorded(rawResults)
             /\ results' = results
       /\ \A name \in DOMAIN results :
             name # testSuites[suiteIdx] =>
                 name \in DOMAIN results' /\ results'[name] = results[name]
      ]_vars

\* The second suite has recorded the last bundle of its second round, for two
\* refs, the results of the first suite being computed.
C31_Witness ==
    /\ pc = "env_stop"
    /\ suiteIdx = 2
    /\ round = 1
    /\ Len(refs) = 2
    /\ Recorded(rawResults) = (1..2) \X Range(refs)
    /\ DOMAIN results["post-editor"] = Range(refs)

\* C32: the run ends, as done or as failed, and a run in which no step
\* failed ends as done, after |suites| x 3 x |refs| suite executions, with no
\* environment left started and the results file of every suite written.
C32_SuccessfulRunTerminates ==
    <>(\/ pc = "failed" /\ error # "none"
       \/ /\ pc = "done"
          /\ error = "none"
          /\ Cardinality(CallsOf("npm run test:performance"))
                = Len(testSuites) * 3 * Len(refs)
          /\ Cardinality(CallsOf("wp-env start"))
                = Len(testSuites) * 3 * Len(refs)
          /\ Cardinality(CallsOf("wp-env stop"))
                = Len(testSuites) * 3 * Len(refs)
          /\ running = <<>>
          /\ DOMAIN artifacts = Range(testSuites)
          /\ Cardinality(CallsOf("writeFileSync")) = Len(testSuites))

\* A run of two refs ended with none of its steps failed: 12 executions.
C32_Witness ==
    /\ pc = "done"
    /\ error = "none"
    /\ Len(refs) = 2
    /\ Cardinality(CallsOf("npm run test:performance")) = 12
    /\ DOMAIN artifacts = {"post-editor", "site-editor"}

\* C33: two different refs of the resolved list never have the same
\* environment directory, neither by the mapping of lines 249-250 nor in
\* branchDirectories.
C33_DistinctDirectories ==
    /\ \A i, j \in DOMAIN refs :
          refs[i] # refs[j] =>
             environmentDirectory(refs[i]) # environmentDirectory(refs[j])
    /\ \A r, q \in DOMAIN branchDirectories :
          r # q => branchDirectories[r] # branchDirectories[q]

\* The environment directories whose .wp-env.json was written back.
PatchedDirectories ==
    {dir \in DOMAIN wpEnvJson :
        /\ CallsOn("writeFileSync .wp-env.json", dir) # {}
        /\ ~(pc = "failed" /\ error = "writeFileSync .wp-env.json"
                           /\ calls[Len(calls)][2] = dir)}

\* C34: a configuration that was written back has the keys of the template
\* (and core), its core is the archive URL of the base version, and every
\* other key has the value of the template; a configuration that was not
\* written back is the template.
C34_PatchReplacesCoreOnly ==
    \A dir \in DOMAIN wpEnvJson :
        IF dir \in PatchedDirectories
        THEN /\ wpVersion # <<>>
             /\ DOMAIN wpEnvJson[dir] = DOMAIN WpEnvTemplate \cup {"core"}
             /\ wpEnvJson[dir]["core"] = zipUrl(wpVersion)
             /\ \A k \in DOMAIN WpEnvTemplate \ {"core"} :
                   wpEnvJson[dir][k] = WpEnvTemplate[k]
        ELSE wpEnvJson[dir] = WpEnvTemplate

\* The configuration of the first of two environments was patched for
\* 6.1.0, and that of the second is still the template.
C34_Witness ==
    /\ Len(refs) = 2
    /\ pc = "env_patch"
    /\ refIdx = 2
    /\ PatchedDirectories = {environmentDirectory(refs[1])}
    /\ wpEnvJson[environmentDirectory(refs[1])]["plugins"] = WpEnvTemplate["plugins"]
    /\ wpEnvJson[environmentDirectory(refs[1])]["core"] # WpEnvTemplate["core"]

\* The calls of onDragStart and onDragEnd among calls of callbacks.
IsDragCallback(c) == c.callback \in {"onDragStart", "onDragEnd"}
DragCallbacks(cbs) == SelectSeq(cbs, IsDragCallback)

\* The callbacks called by the step being taken.
NewCallbacks ==
    {callbacks'[k].callback : k \in (Len(callbacks) + 1)..Len(callbacks')}

\* The step is a run of the animated reaction.
ReactionStep == reactionPending /\ ~reactionPending'

\* C35: onDragStart is called exactly by a run of the reaction that sees
\* isDragging changed from false to true, and onDragEnd exactly by one that
\* sees it changed from true to false (the props being given); every write
\* of isDragging is seen by the reaction before the next gesture event; the
\* calls of the two alternate, the first being onDragStart, and each
\* onDragEnd has the id of the onDragStart before it.
C35_DragCallbacksAlternate ==
    [][/\ "onDragStart" \in NewCallbacks
             <=> (props.onDragStart /\ ReactionStep
                    /\ previous = <<FALSE>> /\ isDragging)
       /\ "onDragEnd" \in NewCallbacks
             <=> (props.onDragEnd /\ ReactionStep
                    /\ previous = <<TRUE>> /\ ~isDragging)
       /\ ~reactionPending' => previous' = <<isDragging'>>
       /\ isDragging' # isDragging => reactionPending'
       /\ LET drag == DragCallbacks(callbacks')
          IN  \A i \in DOMAIN drag :
                 IF i % 2 = 1
                 THEN drag[i].callback = "onDragStart"
                 ELSE /\ drag[i].callback = "onDragEnd"
                      /\ drag[i].id = drag[i - 1].id
      ]_vars

\* Two drags were made, of trigger a and then of trigger b.
C35_Witness ==
    LET drag == DragCallbacks(callbacks)
    IN  /\ Len(drag) = 4
        /\ drag[1].id = "a" /\ drag[2].id = "a"
        /\ drag[3].id = "b" /\ drag[4].id = "b"
        /\ drag[4].callback = "onDragEnd"

\* C36: a long-press activation handled while isDragging is true changes
\* neither draggingId nor isDragging and neither calls a callback nor
\* queues one for the JS thread; and draggingId
\* changes only in a step that changes isDragging from false to true.
C36_ActivationIgnoredWhileDragging ==
    [][/\ (handled' # handled /\ gestureEvent'.name = "onActive" /\ isDragging) =>
             /\ draggingId' = draggingId
             /\ isDragging' = isDragging
             /\ callbacks' = callbacks
             /\ jsQueue' = jsQueue
             /\ ~reactionPending'
       /\ draggingId' # draggingId => (~isDragging /\ isDragging')
      ]_vars

\* Trigger b was long-pressed while trigger a was being dragged.
C36_Witness ==
    /\ gestureEvent = [handler |-> "longPress", name |-> "onActive", id |-> "b"]
    /\ isDragging
    /\ draggingId = "a"
    /\ longPress = [t \in Triggers |-> "active"]
    /\ props = AllCallbacks
    /\ Len(SelectSeq(callbacks, IsDragCallback)) = 1

\* Every long-press handler and the pan gesture are at rest.
GesturesEnded == pan = "idle" /\ \A t \in Triggers : longPress[t] = "idle"

\* C37: a long-press end handled while the pan is active leaves isDragging
\* as it is, and isDragging then stays true until the pan ends; a long-press
\* end handled while the pan is not active sets isDragging to false; and
\* when the long-press handlers and the pan gesture have ended, isDragging
\* and isPanActive are false.
C37_DragNeverStuck ==
    [][handled' # handled =>
          /\ (gestureEvent'.handler = "longPress" /\ gestureEvent'.name = "onEnd") =>
                IF isPanActive THEN isDragging' = isDragging ELSE ~isDragging'
          /\ (isPanActive /\ isDragging /\ gestureEvent'.handler # "pan") =>
                isDragging'
          /\ (isPanActive /\ isDragging /\ gestureEvent'.name # "onEnd") =>
                isDragging'
          /\ GesturesEnded' => (~isDragging' /\ ~isPanActive')
      ]_vars

\* A long press of trigger a ended while the pan was active, and the pan
\* ended after it.
C37_Witness ==
    /\ GesturesEnded
    /\ gestureEvent = [handler |-> "pan", name |-> "onEnd", id |-> ""]
    /\ ~isDragging
    /\ \E i, j \in DOMAIN callbacks :
          /\ i < j
          /\ callbacks[i].callback = "onLongPressEnd"
          /\ callbacks[j].callback = "onDragEnd"
          /\ \A k \in 1..j : callbacks[k].callback # "onDragEnd" \/ k = j

\* The declarations of the rules for a property.
DeclarationsOf(property) ==
    {position_styles[k].declarations[property] :
        k \in {j \in DOMAIN position_styles :
                  property \in DOMAIN position_styles[j].declarations}}

\* C38: for a style whose position is fixed or sticky, the declarations of
\* right, bottom and left have the side values of the style, and the
\* declaration of top is the admin-bar offset variable.
C38_OnlyTopReplaced ==
    (lpc = "returned" /\ style.position \in {"fixed", "sticky"}) =>
        /\ \A side \in {"right", "bottom", "left"} :
              DeclarationsOf(side) =
                 IF style[side] = <<>> THEN {} ELSE {style[side][1]}
        /\ DeclarationsOf("top") =
              IF style.top = <<>> THEN {} ELSE {AdminBarHeight}

====
